---- MODULE Spec2Model ----
(***************************************************************************)
(* omero-rdf: export of OMERO objects as RDF triples.                      *)
(*                                                                         *)
(* The model follows src/omero_rdf/handler.py (Handler: the triple         *)
(* generator and the containment traversal), control.py (RdfControl: the   *)
(* "omero rdf" command), utils.py (gateway_required, open_with_default),   *)
(* formats.py (the output formats) and idr_annotations.py (the annotation  *)
(* handler registered by setup.py).                                        *)
(*                                                                         *)
(* Python strings are TLA+ strings (TLC evaluates Len, SubSeq and \o on    *)
(* them), RDF terms are records [k, v], triples are 3-tuples of terms and  *)
(* an encoded object (a Python dict) is a function from its keys to tagged *)
(* values.                                                                 *)
(***************************************************************************)
EXTENDS Integers, Sequences, FiniteSets, TLC

VARIABLES
    args,       \* argparse Namespace handed to RdfControl.action
    server,     \* what the OMERO server holds and answers (an input)
    reply,      \* what the user types at the "Continue anyway?" prompt
    pc,         \* position inside gateway_required._wrapper / RdfControl.action
    gateway,    \* self.gateway: "none", "open" or "closed"
    closes,     \* number of gateway.close(hard=False) calls made
    handler,    \* the fields of the Handler instance (NoHandler before construction)
    stack,      \* pending calls of RdfControl.descend, innermost first
    fh,         \* the output destination opened by open_with_default
    status,     \* exit status / exception the command ends with
    log,        \* logging.warning records and ctx.out / ctx.err messages
    registry,   \* the entry points of group "omero_rdf.annotation_handler"
    twin,       \* a second run of the same export with a format of the other
                \* kind (NoRun unless two runs are compared)
    probe       \* one call of a method of Handler on its own (literal,
                \* get_identity): its argument and what it returned (NoCall
                \* unless the method is exercised alone)

vars == <<args, server, reply, pc, gateway, closes, handler, stack, fh, status, log,
          registry, twin, probe>>

-----------------------------------------------------------------------------
(* Bounds *)

\* Largest number of targets on one command line (nargs="+").
MaxTargets == 2

-----------------------------------------------------------------------------
(* Python string primitives *)

\* The characters the model's strings use, in code-point order.
Ascii == " #-./0123456789:@ABCDEFGHIJKLMNOPQRSTUVWXYZ_abcdefghijklmnopqrstuvwxyz"
Lower == " #-./0123456789:@abcdefghijklmnopqrstuvwxyz_abcdefghijklmnopqrstuvwxyz"

CharAt(s, i) == SubSeq(s, i, i)

\* ord(c), up to an order-preserving renumbering
Ord(c) == CHOOSE i \in 1..Len(Ascii) : CharAt(Ascii, i) = c

\* str.startswith / str.endswith
startswith(s, p) == Len(p) <= Len(s) /\ SubSeq(s, 1, Len(p)) = p
endswith(s, p) == Len(p) <= Len(s) /\ SubSeq(s, Len(s) - Len(p) + 1, Len(s)) = p

\* "sub in s"
contains_str(s, sub) ==
    \E i \in 1..(Len(s) - Len(sub) + 1) : SubSeq(s, i, i + Len(sub) - 1) = sub

\* s.split(sep)[-1] for a one-character separator
split_last(s, sep) ==
    LET hits == {i \in 1..Len(s) : CharAt(s, i) = sep}
    IN  IF hits = {} THEN s
        ELSE LET last == CHOOSE i \in hits : \A j \in hits : j <= i
             IN  SubSeq(s, last + 1, Len(s))

\* Python's < on str: lexicographic by code point
RECURSIVE str_lt(_, _)
str_lt(a, b) ==
    IF Len(b) = 0 THEN FALSE
    ELSE IF Len(a) = 0 THEN TRUE
    ELSE IF CharAt(a, 1) = CharAt(b, 1) THEN str_lt(Tail(a), Tail(b))
    ELSE Ord(CharAt(a, 1)) < Ord(CharAt(b, 1))

\* The characters str.strip() removes, of those the model's strings use
Whitespace == {" ", "\t"}

\* str.strip(): leading and trailing whitespace is removed
RECURSIVE lstrip(_)
lstrip(s) == IF Len(s) > 0 /\ CharAt(s, 1) \in Whitespace THEN lstrip(Tail(s)) ELSE s
RECURSIVE rstrip(_)
rstrip(s) ==
    IF Len(s) > 0 /\ CharAt(s, Len(s)) \in Whitespace
    THEN rstrip(SubSeq(s, 1, Len(s) - 1)) ELSE s
strip(s) == rstrip(lstrip(s))

\* Python slices v[a:b] with 0 <= a and b possibly negative (counted from the end)
slice(s, a, b) ==
    LET hi == IF b < 0 THEN Len(s) + b ELSE IF b > Len(s) THEN Len(s) ELSE b
    IN  SubSeq(s, a + 1, hi)

-----------------------------------------------------------------------------
(* Python values, tagged with their type *)

Str(s) == [t |-> "str", s |-> s]
Num(n) == [t |-> "int", n |-> n]
Dict(d) == [t |-> "dict", d |-> d]
List(l) == [t |-> "list", l |-> l]

-----------------------------------------------------------------------------
(* RDF terms *)

URIRef(v) == [k |-> "uri", v |-> v]
BNode(n) == [k |-> "bnode", v |-> ToString(n)]
\* rdflib Literal(v): a plain literal for a str, a typed one for an int
Literal(v) == IF v.t = "int" THEN [k |-> "int", v |-> ToString(v.n)]
              ELSE [k |-> "lit", v |-> v.s]
None == [k |-> "none", v |-> ""]

OME == "http://www.openmicroscopy.org/rdf/2016-06/ome_core/"
OMERO == "http://www.openmicroscopy.org/TBD/omero/"
RDF_type == URIRef("http://www.w3.org/1999/02/22-rdf-syntax-ns#type")
DCTERMS_isPartOf == URIRef("http://purl.org/dc/terms/isPartOf")
DCTERMS_hasPart == URIRef("http://purl.org/dc/terms/hasPart")
WDP == "http://www.wikidata.org/prop/direct/"
WD == "http://www.wikidata.org/entity/"

-----------------------------------------------------------------------------
(* Encoded objects (omero_marshal output): a dict from keys to tagged values *)

TYPE_NS == "http://www.openmicroscopy.org/Schemas/OME/2016-06#"

\* An object of the server: its omero.model class and its id.
\* Proxy is the unloaded object ProxyStringType makes of "Type:id".
Obj(cls, id) == [cls |-> cls, id |-> id, loaded |-> TRUE]
Proxy(cls, id) == [cls |-> cls, id |-> id, loaded |-> FALSE]

\* data.get(key, default)
get(data, key, default) == IF key \in DOMAIN data THEN data[key] ELSE default

\* The fields every encoder writes: '@type', '@id' (unless the object has
\* none) and 'omero:details'.
base(short, id, hasId) ==
    LET t == ("@type" :> Str(TYPE_NS \o short))
             @@ ("omero:details" :> Dict(("@type" :> Str("TBD#Details"))))
    IN  IF hasId THEN t @@ ("@id" :> Num(id)) ELSE t

\* encoder.encode(o) for the objects of the modelled server.  The shapes are
\* those omero_marshal produces: scalars, a list of objects with '@id'
\* (Image.Pixels), an object without '@id' (Pixels.Type), a list of
\* [key, value] pairs (MapAnnotation.Value) and the 'Annotations' of an
\* object fetched with its annotation links (the ROIs of _get_rois).  On a
\* server with the quirk "channel_without_id" the Pixels have a list
\* 'Channels' whose element has no '@id'.
RECURSIVE encode(_, _)
encode(srv, o) ==
    CASE ~o.loaded ->
            \* an unloaded proxy: only what the base encoder reads
            ("@type" :> Str(TYPE_NS \o o.cls)) @@ ("@id" :> Num(o.id))
      [] o.cls = "Project" -> base("Project", o.id, TRUE) @@ ("Name" :> Str("prj"))
      [] o.cls = "Dataset" -> base("Dataset", o.id, TRUE) @@ ("Name" :> Str("ds"))
      [] o.cls = "Screen" -> base("Screen", o.id, TRUE) @@ ("Name" :> Str("scr"))
      [] o.cls = "Plate" -> base("Plate", o.id, TRUE) @@ ("Name" :> Str("plt"))
      [] o.cls = "Well" -> base("Well", o.id, TRUE) @@ ("Column" :> Num(0))
      [] o.cls = "Image" ->
            base("Image", o.id, TRUE) @@ ("Name" :> Str(" img"))
            @@ (IF srv.pixels[o.id] = 0 THEN <<>>
                ELSE ("Pixels" :> List(<<Dict(encode(srv, Obj("Pixels", srv.pixels[o.id])))>>)))
      [] o.cls = "Pixels" ->
            base("Pixels", o.id, TRUE)
            @@ ("Type" :> Dict(("@type" :> Str("TBD#PixelsType")) @@ ("value" :> Str("uint8"))))
            @@ (IF "channel_without_id" \in srv.quirks
                THEN ("Channels" :> List(<<Dict(("@type" :> Str(TYPE_NS \o "Channel")))>>))
                ELSE <<>>)
      [] o.cls = "Roi" ->
            base("ROI", o.id, TRUE)
            @@ (IF srv.fetched[o.id] = <<>> THEN <<>>
                ELSE ("Annotations" :>
                        List([i \in 1..Len(srv.fetched[o.id]) |->
                                Dict(encode(srv, srv.fetched[o.id][i]))])))
      [] o.cls = "Shape" -> base("Rectangle", o.id, TRUE) @@ ("Width" :> Num(4))
      [] o.cls = "MapAnnotation" ->
            base("MapAnnotation", o.id, TRUE)
            @@ ("Value" :> List(<<List(<<Str("Organism"), Str("Homo sapiens")>>),
                                  List(<<Str("Age"), Str("5")>>)>>))
      [] o.cls = "CommentAnnotation" ->
            base("CommentAnnotation", o.id, o.id \notin srv.noid) @@ ("Value" :> Str("note"))

\* get_encoder(c) is not None: every modelled class has an encoder but
\* ListAnnotation.
get_encoder(o) == o.cls # "ListAnnotation"

-----------------------------------------------------------------------------
(* Handler: identities, keys, literals *)

\* str(v) of a scalar
pystr(v) == IF v.t = "int" THEN ToString(v.n) ELSE v.s

\* "not v" for the value of data.get("@id")
falsy(v) ==
    \/ v.t = "none"
    \/ v.t = "int" /\ v.n = 0
    \/ v.t = "str" /\ v.s = ""

NoValue == [t |-> "none"]

\* Handler.get_identity without the second test of line 121, "ROI" losing its
\* last letter like any name in I: the fault C27 excludes
get_identity_every_I(h, _type, _id) ==
    LET t == IF endswith(_type, "I") THEN slice(_type, 0, -1) ELSE _type
    IN  URIRef("https://" \o h.host \o "/" \o t \o "/" \o _id)

\* Handler.get_identity
get_identity(h, _type, _id) ==
    LET t == IF endswith(_type, "I") /\ _type # "ROI"
             THEN slice(_type, 0, -1) ELSE _type
    IN  URIRef("https://" \o h.host \o "/" \o t \o "/" \o _id)

\* Handler.get_type
get_type(data) ==
    split_last(IF "@type" \in DOMAIN data THEN data["@type"].s ELSE "UNKNOWN", "#")

\* Handler.literal without the logging.warning of lines 156-158: the fault C14
\* excludes
literal_silent(h, v) ==
    IF v.t = "str"
    THEN IF h.use_ellide /\ Len(v.s) > 50
         THEN [lit |-> Literal(Str(slice(v.s, 0, 24) \o "..." \o slice(v.s, Len(v.s) - 20, -1))),
               warned |-> FALSE]
         ELSE IF (startswith(v.s, " ") \/ endswith(v.s, " ")) /\ h.trim_whitespace
         THEN [lit |-> Literal(Str(strip(v.s))), warned |-> FALSE]
         ELSE [lit |-> Literal(v), warned |-> FALSE]
    ELSE [lit |-> Literal(v), warned |-> FALSE]

\* Handler.literal with v[-20:] for v[-20:-1] at line 151: the fault C15
\* excludes
literal_to_the_end(h, v) ==
    IF v.t = "str"
    THEN IF h.use_ellide /\ Len(v.s) > 50
         THEN [lit |-> Literal(Str(slice(v.s, 0, 24) \o "..."
                                   \o slice(v.s, Len(v.s) - 20, Len(v.s)))),
               warned |-> FALSE]
         ELSE IF startswith(v.s, " ") \/ endswith(v.s, " ")
         THEN IF h.trim_whitespace
              THEN [lit |-> Literal(Str(strip(v.s))), warned |-> FALSE]
              ELSE [lit |-> Literal(v), warned |-> TRUE]
         ELSE [lit |-> Literal(v), warned |-> FALSE]
    ELSE [lit |-> Literal(v), warned |-> FALSE]

\* Handler.literal: the literal and whether logging.warning was called
literal(h, v) ==
    IF v.t = "str"
    THEN IF h.use_ellide /\ Len(v.s) > 50
         THEN [lit |-> Literal(Str(slice(v.s, 0, 24) \o "..." \o slice(v.s, Len(v.s) - 20, -1))),
               warned |-> FALSE]
         ELSE IF startswith(v.s, " ") \/ endswith(v.s, " ")
         THEN IF h.trim_whitespace
              THEN [lit |-> Literal(Str(strip(v.s))), warned |-> FALSE]
              ELSE [lit |-> Literal(v), warned |-> TRUE]
         ELSE [lit |-> Literal(v), warned |-> FALSE]
    ELSE [lit |-> Literal(v), warned |-> FALSE]

\* data.items() taken in descending order of the keys: the fault C16 excludes
RECURSIVE sorted_keys_descending(_)
sorted_keys_descending(S) ==
    IF S = {} THEN <<>>
    ELSE LET m == CHOOSE k \in S : \A j \in S \ {k} : str_lt(j, k)
         IN  <<m>> \o sorted_keys_descending(S \ {m})

\* sorted(data.items()): the keys in ascending order
RECURSIVE sorted_keys(_)
sorted_keys(S) ==
    IF S = {} THEN <<>>
    ELSE LET m == CHOOSE k \in S : \A j \in S \ {k} : str_lt(k, j)
         IN  <<m>> \o sorted_keys(S \ {m})

-----------------------------------------------------------------------------
(* The generator Handler.rdf.  Its state g while it runs:                   *)
(*   cache, bnode, minted : Handler.cache, Handler.bnode, BNode()s so far   *)
(*   out  : the triples yielded so far, in order                            *)
(*   err  : "" or the exception that ended the generator                    *)
(*   warn : the logging.warning calls made so far                           *)

Yield(g, triple) == [g EXCEPT !.out = Append(@, triple)]
Warn(g, msg) == [g EXCEPT !.warn = Append(@, msg)]
Raise(g, exc) == [g EXCEPT !.err = exc]

\* IDRAnnotationHandler.__call__: the triples it yields and its return value
RECURSIVE idr_kvps(_, _, _, _)
idr_kvps(srv, g, thing, kvps) ==
    IF kvps = <<>> THEN g
    ELSE LET name == Head(kvps).l[1].s
             value == Head(kvps).l[2].s
             g1 == CASE name = "Organism" ->
                          IF srv.wikidata
                          THEN Yield(g, <<thing, URIRef(WDP \o "P703"), URIRef(WD \o "Q15978631")>>)
                          ELSE Yield(Warn(g, "missing in wikidata"),
                                     <<thing, URIRef(WDP \o "P703"), None>>)
                     [] name = "Sex" ->
                          IF value = "Female"
                          THEN Yield(g, <<thing, URIRef(WDP \o "P21"), URIRef(WD \o "Q6581072")>>)
                          ELSE IF value = "Male"
                          THEN Yield(g, <<thing, URIRef(WDP \o "P21"), URIRef(WD \o "Q6581097")>>)
                          ELSE Warn(g, "unmapped sex value")
                     [] name = "Age" ->
                          Yield(g, <<thing, URIRef(WDP \o "P3629"), Literal(Str(value))>>)
                     [] OTHER -> Warn(g, "unknown key")
         IN  idr_kvps(srv, g1, thing, Tail(kvps))

IDRAnnotationHandler(h, srv, g, container, pred, data) ==
    IF "@type" \notin DOMAIN data \/ ~contains_str(data["@type"].s, "MapAnnotation")
    THEN [g |-> g, handled |-> FALSE]
    ELSE LET hasId == "@id" \in DOMAIN data
             thing == IF hasId THEN get_identity(h, "MapAnnotation", pystr(data["@id"]))
                      ELSE BNode(g.minted)
             g0 == IF hasId THEN g ELSE [g EXCEPT !.minted = @ + 1]
             g1 == IF container # None
                   THEN Yield(g0, <<container, URIRef(WDP \o "P180"), thing>>)
                   ELSE g0
             g2 == Yield(g1, <<thing, RDF_type, URIRef(WD \o "Q35120")>>)
             kvps == IF "Value" \in DOMAIN data THEN data["Value"].l ELSE <<>>
         IN  [g |-> idr_kvps(srv, g2, thing, kvps), handled |-> TRUE]

\* ah(container, pred, data) for a registered annotation handler
call_handler(name, h, srv, g, container, pred, data) ==
    IDRAnnotationHandler(h, srv, g, container, pred, data)

\* Handler.get_bnode: a fresh blank node; self.bnode += 1
get_bnode(g) ==
    [node |-> BNode(g.minted),
     g |-> [g EXCEPT !.minted = @ + 1, !.bnode = @ + 1]]

RECURSIVE offer_root(_, _, _, _, _)
RECURSIVE offer_item(_, _, _, _, _, _)
RECURSIVE rdf(_, _, _, _, _)
RECURSIVE rdf_items(_, _, _, _, _, _)
RECURSIVE rdf_list(_, _, _, _, _, _)
RECURSIVE rdf_annotations(_, _, _, _, _)

\* Handler.rdf without lines 255-256 (the return): the fault C23 excludes
offer_root_next_through(h, srv, r, data, i) == offer_root(h, srv, r.g, data, i + 1)

\* Handler.rdf lines 255-256, after handler i returned r
offer_root_next(h, srv, r, data, i) ==
    IF h.first_handler_wins /\ r.handled
    THEN [g |-> r.g, stop |-> TRUE]
    ELSE offer_root(h, srv, r.g, data, i + 1)

\* The loop of Handler.rdf lines 249-256: every handler is offered
\* (None, None, data); stop is set when the generator returns at line 256.
offer_root(h, srv, g, data, i) ==
    IF i > Len(h.annotation_handlers) THEN [g |-> g, stop |-> FALSE]
    ELSE offer_root_next(h, srv,
            call_handler(h.annotation_handlers[i], h, srv, g, None, None, data),
            data, i)

\* Handler.rdf without lines 321-322 (the break): the fault C21 excludes
offer_item_next_unbroken(h, srv, r, _id, annotation, i) ==
    IF i = Len(h.annotation_handlers) THEN r
    ELSE offer_item(h, srv, r.g, _id, annotation, i + 1)

\* Handler.rdf lines 321-322, after handler i returned r
offer_item_next(h, srv, r, _id, annotation, i) ==
    IF r.handled THEN r
    ELSE offer_item(h, srv, r.g, _id, annotation, i + 1)

\* The loop of Handler.rdf lines 317-322: the handlers are offered one item of
\* 'Annotations' until one of them returns True.
offer_item(h, srv, g, _id, annotation, i) ==
    IF i > Len(h.annotation_handlers) THEN [g |-> g, handled |-> FALSE]
    ELSE offer_item_next(h, srv,
            call_handler(h.annotation_handlers[i], h, srv, g, _id,
                         URIRef(OME \o "annotation"), annotation),
            _id, annotation, i)

\* Handler.yield_object_with_id
yield_object_with_id(h, srv, g, _id, key, v) ==
    rdf(h, srv,
        Yield(g, <<_id, key, get_identity(h, get_type(v), pystr(v["@id"]))>>),
        _id, v)

\* A yield whose value came from Handler.literal
yield_literal(g, s, p, l) ==
    Yield(IF l.warned THEN Warn(g, "whitespace") ELSE g, <<s, p, l.lit>>)

\* Handler.rdf lines 295-307: a [key, value] pair of a list, on blank node b
map_entry(h, b, _id, item) ==
    yield_literal(
        yield_literal(Yield(b.g, <<_id, URIRef(OME \o "Map"), b.node>>),
                      b.node, URIRef(OME \o "Key"), literal(h, item.l[1])),
        b.node, URIRef(OME \o "Value"), literal(h, item.l[2]))

\* Handler.rdf lines 292-309: one item of a list value
rdf_list_item(h, srv, g, _id, key, item) ==
    IF item.t = "dict" /\ "@id" \in DOMAIN item.d
    THEN yield_object_with_id(h, srv, g, _id, key, item.d)
    ELSE IF item.t = "list" /\ Len(item.l) = 2
    THEN map_entry(h, get_bnode(g), _id, item)
    ELSE Raise(g, "Exception: unknown list item")

\* Handler.rdf lines 291-309: the items of a list value
rdf_list(h, srv, g, _id, key, items) ==
    IF items = <<>> \/ g.err # "" THEN g
    ELSE rdf_list(h, srv, rdf_list_item(h, srv, g, _id, key, Head(items)),
                  _id, key, Tail(items))

\* Handler.rdf lines 284-286: a nested object without '@id', on blank node b
rdf_bnode(h, srv, b, _id, key, v) ==
    rdf(h, srv, Yield(b.g, <<_id, key, b.node>>), b.node, v)

\* Handler.rdf lines 272-311: the attribute k with value v and predicate key
rdf_value(h, srv, g, _id, key, v) ==
    IF v.t = "dict"
    THEN IF "@id" \in DOMAIN v.d
         THEN yield_object_with_id(h, srv, g, _id, key, v.d)
         ELSE rdf_bnode(h, srv, get_bnode(g), _id, key, v.d)
    ELSE IF v.t = "list" THEN rdf_list(h, srv, g, _id, key, v.l)
    ELSE yield_literal(g, _id, key, literal(h, v))

\* Handler.rdf lines 266-311: one item of sorted(data.items())
rdf_item(h, srv, g, _id, k, v) ==
    IF k = "@type" THEN Yield(g, <<_id, RDF_type, URIRef(v.s)>>)
    ELSE IF k \in {"@id", "omero:details", "Annotations"} THEN g
    ELSE rdf_value(h, srv, g, _id,
                   IF startswith(k, "omero:")
                   THEN URIRef(OMERO \o slice(k, 6, Len(k)))
                   ELSE URIRef(OME \o k),
                   v)

\* Handler.rdf lines 265-311: the attributes, in the order of the sorted keys
rdf_items(h, srv, g, _id, data, keys) ==
    IF keys = <<>> \/ g.err # "" THEN g
    ELSE rdf_items(h, srv, rdf_item(h, srv, g, _id, Head(keys), data[Head(keys)]),
                   _id, data, Tail(keys))

\* Handler.rdf lines 324-327 without the test of handled: the fault C22 excludes
rdf_default_always(h, srv, r, _id, annotation) ==
    IF "@id" \notin DOMAIN annotation THEN Raise(r.g, "KeyError: @id")
    ELSE rdf(h, srv,
             Yield(r.g, <<_id, URIRef(OME \o "annotation"),
                          get_identity(h, "AnnotationTBD", pystr(annotation["@id"]))>>),
             get_identity(h, "AnnotationTBD", pystr(annotation["@id"])),
             annotation)

\* Handler.rdf lines 324-327: the default path of an item no handler claimed
rdf_default(h, srv, r, _id, annotation) ==
    IF r.handled THEN r.g
    ELSE IF "@id" \notin DOMAIN annotation THEN Raise(r.g, "KeyError: @id")
    ELSE rdf(h, srv,
             Yield(r.g, <<_id, URIRef(OME \o "annotation"),
                          get_identity(h, "AnnotationTBD", pystr(annotation["@id"]))>>),
             get_identity(h, "AnnotationTBD", pystr(annotation["@id"])),
             annotation)

\* Handler.rdf lines 314-327: the items of 'Annotations'
rdf_annotations(h, srv, g, _id, annotations) ==
    IF annotations = <<>> \/ g.err # "" THEN g
    ELSE rdf_annotations(h, srv,
            rdf_default(h, srv, offer_item(h, srv, g, _id, Head(annotations).d, 1),
                        _id, Head(annotations).d),
            _id, Tail(annotations))

\* Handler.rdf lines 313-327, after the attributes left the generator in g
rdf_after_items(h, srv, g, _id, data) ==
    IF g.err # "" THEN g
    ELSE rdf_annotations(h, srv, g, _id,
            IF "Annotations" \in DOMAIN data THEN data["Annotations"].l ELSE <<>>)

\* Handler.rdf without lines 262-263 (self.cache.add(_id)): the fault C1 excludes
rdf_visit_unmarked(h, srv, w, _id, data) ==
    IF w.stop THEN w.g
    ELSE IF _id \in w.g.cache THEN w.g
    ELSE rdf_after_items(h, srv,
            rdf_items(h, srv, w.g, _id, data, sorted_keys(DOMAIN data)),
            _id, data)

\* Handler.rdf without lines 259-261 (the test of self.cache): the fault C2
\* excludes
rdf_visit_unchecked(h, srv, w, _id, data) ==
    IF w.stop THEN w.g
    ELSE rdf_after_items(h, srv,
            rdf_items(h, srv, [w.g EXCEPT !.cache = @ \cup {_id}], _id, data,
                      sorted_keys(DOMAIN data)),
            _id, data)

\* Handler.rdf lines 259-327, after the handlers were offered an annotation
rdf_visit(h, srv, w, _id, data) ==
    IF w.stop THEN w.g
    ELSE IF _id \in w.g.cache THEN w.g
    ELSE rdf_after_items(h, srv,
            rdf_items(h, srv, [w.g EXCEPT !.cache = @ \cup {_id}], _id, data,
                      sorted_keys(DOMAIN data)),
            _id, data)

\* Handler.rdf
rdf(h, srv, g, _id, data) ==
    rdf_visit(h, srv,
              IF contains_str(get_type(data), "Annotation")
              THEN offer_root(h, srv, g, data, 1)
              ELSE [g |-> g, stop |-> FALSE],
              _id, data)

-----------------------------------------------------------------------------
(* Output formats (formats.py) *)

\* format_mapping(): the names of --format
FormatNames == {"ntriples", "turtle", "jsonld", "ro-crate"}

\* Format.streaming, set by StreamingFormat / NonStreamingFormat
streaming(fmt) == fmt = "ntriples"

\* Node.n3()
n3(term) ==
    CASE term.k = "uri" -> "<" \o term.v \o ">"
      [] term.k = "bnode" -> "_:b" \o term.v
      [] term.k = "int" ->
            "\"" \o term.v \o "\"^^<http://www.w3.org/2001/XMLSchema#integer>"
      [] OTHER -> "\"" \o term.v \o "\""

\* serialize_triple: the line of NTriplesFormat, a RuntimeError of the
\* non-streaming formats; None has no n3().  (The strings of the model are ASCII without
\* backslashes, which encode("unicode_escape") leaves as they are.)
serialize_triple(fmt, triple) ==
    IF ~streaming(fmt)
    THEN [err |-> "RuntimeError: triple serialization not supported", line |-> ""]
    ELSE IF \E i \in 1..3 : triple[i] = None
    THEN [err |-> "AttributeError: 'NoneType' object has no attribute 'n3'", line |-> ""]
    ELSE [err |-> "", line |-> n3(triple[1]) \o "\t" \o n3(triple[2]) \o "\t"
                               \o n3(triple[3]) \o " ."]

\* A Graph.add that keeps no containment edge from parent to child: the fault
\* C7 excludes
add_without_hasPart(fmt, graph, triple) ==
    IF streaming(fmt)
    THEN [err |-> "RuntimeError: adding not supported during streaming", graph |-> graph]
    ELSE [err |-> "",
          graph |-> IF triple[2] = DCTERMS_hasPart THEN graph ELSE graph \cup {triple}]

\* add: Graph.add of NonStreamingFormat, which asserts that the three terms
\* are nodes, a RuntimeError of StreamingFormat
add(fmt, graph, triple) ==
    IF streaming(fmt)
    THEN [err |-> "RuntimeError: adding not supported during streaming", graph |-> graph]
    ELSE IF \E i \in 1..3 : triple[i] = None
    THEN [err |-> "AssertionError: must be an rdflib term", graph |-> graph]
    ELSE [err |-> "", graph |-> graph \cup {triple}]

\* ROCrateFormat.serialize_graph lines 153-156: jsonld.flatten makes one node
\* object per subject of the graph, and jsonld.compact wraps its result in
\* "@graph" only when there are several node objects (a single one is returned
\* as the document itself, none as an empty document).
compacted_has_graph(graph) == Cardinality({t[1] : t \in graph}) > 1

\* serialize_graph: the document a non-streaming format renders.  ROCrateFormat
\* puts its two descriptor nodes before the graph and raises when the compacted
\* document has no "@graph".
serialize_graph(fmt, graph) ==
    IF streaming(fmt)
    THEN [err |-> "RuntimeError: graph serialization not supported", doc |-> <<>>]
    ELSE IF fmt = "ro-crate" /\ ~compacted_has_graph(graph)
    THEN [err |-> "Exception: no @graph", doc |-> <<>>]
    ELSE [err |-> "",
          doc |-> <<[format |-> fmt,
                     descriptors |-> IF fmt = "ro-crate"
                                     THEN <<"./", "ro-crate-metadata.json">> ELSE <<>>,
                     triples |-> graph]>>]

-----------------------------------------------------------------------------
(* A run: the Handler, the output destination, the pending calls, the       *)
(* outcome and the log.  The operations of Handler and RdfControl.descend   *)
(* map a run to the run after them.                                         *)

OK == [code |-> 0, exc |-> ""]
Failed(code, exc) == [code |-> code, exc |-> exc]

fail(r, code, exc) == [r EXCEPT !.status = Failed(code, exc)]

\* print(text, file=self.filehandle)
print_line(r, text) == [r EXCEPT !.fh.lines = Append(@, text)]

\* Handler.emit without the test of formatter.streaming, every triple being
\* added: the fault C17 excludes
emit_by_add(r, triple) ==
    LET a == add(r.handler.formatter, r.handler.graph, triple)
    IN  IF a.err # "" THEN fail(r, 1, a.err)
        ELSE [r EXCEPT !.handler.graph = a.graph]

\* Handler.emit
emit(r, triple) ==
    IF streaming(r.handler.formatter)
    THEN LET s == serialize_triple(r.handler.formatter, triple)
         IN  IF s.err # "" THEN fail(r, 1, s.err) ELSE print_line(r, s.line)
    ELSE LET a == add(r.handler.formatter, r.handler.graph, triple)
         IN  IF a.err # "" THEN fail(r, 1, a.err)
             ELSE [r EXCEPT !.handler.graph = a.graph]

\* Handler.contains without line 226: the fault C4 excludes
contains_one_way(r, parent, child) == emit(r, <<child, DCTERMS_isPartOf, parent>>)

\* Handler.contains
contains(r, parent, child) ==
    LET r1 == emit(r, <<child, DCTERMS_isPartOf, parent>>)
    IN  IF r1.status # OK THEN r1
        ELSE emit(r1, <<parent, DCTERMS_hasPart, child>>)

\* Handler.close
close(r) ==
    IF ~streaming(r.handler.formatter)
    THEN LET s == serialize_graph(r.handler.formatter, r.handler.graph)
         IN  IF s.err # "" THEN fail(r, 1, s.err)
             ELSE [r EXCEPT !.fh.docs = @ \o s.doc]
    ELSE r

\* Handler.handle without the test of line 212, every triple being emitted: the
\* fault C18 excludes
RECURSIVE handle_triples_unfiltered(_, _)
handle_triples_unfiltered(r, triples) ==
    IF triples = <<>> \/ r.status # OK THEN r
    ELSE handle_triples_unfiltered(emit(r, Head(triples)), Tail(triples))

\* Handler.handle lines 210-215: what is done with each triple the generator
\* yields, in order
RECURSIVE handle_triples(_, _)
handle_triples(r, triples) ==
    IF triples = <<>> \/ r.status # OK THEN r
    ELSE LET triple == Head(triples)
             r1 == IF \E i \in 1..3 : triple[i] = None THEN r ELSE emit(r, triple)
         IN  handle_triples(r1, Tail(triples))

\* Handler.handle lines 210-217, given the generator's run g: its state is the
\* Handler's, the triples it yielded are emitted and its exception, if any,
\* leaves handle.
handle_finish(r, g) ==
    IF r.status = OK /\ g.err # "" THEN fail(r, 1, g.err) ELSE r

\* Handler.handle collecting the generator's triples before it emits any, so
\* that an exception of the generator leaves none written: the fault C26
\* excludes
handle_collected(r, g) ==
    IF g.err # "" THEN handle_finish(r, g)
    ELSE handle_triples([r EXCEPT !.handler.cache = g.cache, !.handler.bnode = g.bnode,
                                  !.handler.minted = g.minted, !.log = @ \o g.warn],
                        g.out)

handle_generated(r, g) ==
    handle_finish(
        handle_triples([r EXCEPT !.handler.cache = g.cache, !.handler.bnode = g.bnode,
                                 !.handler.minted = g.minted, !.log = @ \o g.warn],
                       g.out),
        g)

\* Handler.handle without lines 203-204, str(None) standing for the missing id:
\* the fault C5 excludes
handle_unchecked(r, srv, data) ==
    handle_generated(r,
        rdf(r.handler, srv,
            [cache |-> r.handler.cache, bnode |-> r.handler.bnode,
             minted |-> r.handler.minted, out |-> <<>>, err |-> "", warn |-> <<>>],
            get_identity(r.handler, get_type(data),
                         IF "@id" \in DOMAIN data THEN pystr(data["@id"]) ELSE "None"),
            data))

\* Handler.handle.  The triples yielded before an exception of the generator
\* have been emitted when the exception leaves handle.
handle(r, srv, data) ==
    IF falsy(get(data, "@id", NoValue)) THEN fail(r, 1, "Exception: missing id")
    ELSE handle_generated(r,
            rdf(r.handler, srv,
                [cache |-> r.handler.cache, bnode |-> r.handler.bnode,
                 minted |-> r.handler.minted, out |-> <<>>, err |-> "", warn |-> <<>>],
                get_identity(r.handler, get_type(data), pystr(data["@id"])),
                data))

\* The value Handler.handle returns for data
handle_id(h, data) ==
    IF falsy(get(data, "@id", NoValue)) THEN None
    ELSE get_identity(h, get_type(data), pystr(data["@id"]))

-----------------------------------------------------------------------------
(* The server: containers, children, annotation links *)

\* gateway.getObject(_type, oid) finds the object
exists(srv, cls, id) == Obj(cls, id) \in srv.objects

\* listChildren() of a Screen, Plate (its wells), Project or Dataset;
\* well.getImage(idx) for idx in range(countWellSample()) of a Well
listChildren(srv, o) ==
    CASE o.cls = "Project" /\ o.id = 1 -> <<Obj("Dataset", 1), Obj("Dataset", 2)>>
      [] o.cls = "Dataset" /\ o.id = 1 -> <<Obj("Image", 1)>>
      [] o.cls = "Dataset" /\ o.id = 2 -> <<Obj("Image", 1)>>
      [] o.cls = "Screen" /\ o.id = 1 -> <<Obj("Plate", 1)>>
      [] o.cls = "Plate" /\ o.id = 1 -> <<Obj("Well", 1)>>
      [] o.cls = "Well" /\ o.id = 1 -> <<Obj("Image", 2)>>
      [] OTHER -> <<>>

\* img.getPrimaryPixels(): <<>> stands for None
getPrimaryPixels(srv, img) ==
    IF srv.pixels[img.id] = 0 THEN <<>> ELSE <<Obj("Pixels", srv.pixels[img.id])>>

\* Handler._get_rois and roi.iterateShapes()
_get_rois(srv, img) == srv.rois[img.id]
iterateShapes(srv, roi) == IF roi.id = 1 THEN <<Obj("Shape", 1)>> ELSE <<>>

\* obj.linkedAnnotationList() of an IObject, obj.listAnnotations(None) of a wrapper
listAnnotations(srv, o) ==
    CASE o.cls = "Image" /\ o.id = 1 ->
            (IF "list_annotation" \in srv.quirks THEN <<Obj("ListAnnotation", 3)>> ELSE <<>>)
            \o <<Obj("MapAnnotation", 1)>>
      [] o.cls = "Dataset" /\ o.id = 1 -> <<Obj("MapAnnotation", 1)>>
      [] o.cls = "Image" /\ o.id = 2 -> <<Obj("CommentAnnotation", 2)>>
      [] o.cls = "Roi" -> srv.fetched[o.id]
      [] OTHER -> <<>>

\* A server: Image 2 may have no primary pixels (p2 = 0) and may have a ROI,
\* CommentAnnotation 2 may be encoded without '@id', the Wikidata query of the
\* IDR handler may find nothing.  Project 2 is empty and has no annotation;
\* Image 9 does not exist.
Server(p2, r2, noid, wikidata) ==
    [objects |-> {Obj("Project", 1), Obj("Project", 2), Obj("Dataset", 1),
                  Obj("Dataset", 2), Obj("Image", 1), Obj("Image", 2),
                  Obj("Screen", 1), Obj("Plate", 1)},
     pixels |-> (1 :> 1) @@ (2 :> p2),
     rois |-> (1 :> <<Obj("Roi", 1)>>) @@ (2 :> r2),
     fetched |-> (1 :> <<Obj("CommentAnnotation", 2)>>) @@ (2 :> <<>>),
     noid |-> noid,
     wikidata |-> wikidata,
     quirks |-> {},
     host |-> "omero.example.org"]

Servers ==
    {Server(p2, r2, {}, TRUE) : p2 \in {0, 2}, r2 \in {<<>>, <<Obj("Roi", 2)>>}}
    \cup {Server(2, <<Obj("Roi", 2)>>, {2}, TRUE),
          Server(2, <<Obj("Roi", 2)>>, {}, FALSE)}

\* Servers for the exports that exercise the handler chain and malformed
\* input: ROI 1 is fetched with MapAnnotation 1 among its annotation links;
\* the Pixels have a channel without '@id'; Image 1 is linked to a
\* ListAnnotation, for which there is no encoder.
PluginServers ==
    {[Server(2, <<>>, {}, TRUE) EXCEPT !.fetched[1] = <<Obj("MapAnnotation", 1)>>],
     [Server(2, <<>>, {}, TRUE) EXCEPT !.quirks = {"channel_without_id"}],
     [Server(2, <<>>, {}, TRUE) EXCEPT !.quirks = {"list_annotation"}]}

-----------------------------------------------------------------------------
(* Pending calls: RdfControl.descend as a stack of the calls still to make  *)

NoObj == [cls |-> "", id |-> 0, loaded |-> FALSE]
Unbound == [k |-> "unbound", v |-> "pixid"]

DescendCall(o) == [op |-> "descend", o |-> o, a |-> None, b |-> None]
HandlerCall(o) == [op |-> "call", o |-> o, a |-> None, b |-> None]
AnnotationsCall(o, objid) == [op |-> "annotations", o |-> o, a |-> objid, b |-> None]
ContainsCall(parent, child) == [op |-> "contains", o |-> NoObj, a |-> parent, b |-> child]

\* The subject handler(o) returns
id_of(h, srv, o) == IF get_encoder(o) THEN handle_id(h, encode(srv, o)) ELSE None

\* A skip_descent that never skips: the fault C3 excludes
skip_descent_never(h) == FALSE

\* Handler.skip_descent
skip_descent(h) == h.descent # "recursive" /\ h.descent_level > 0

\* Handler.descending
descending(h) == [h EXCEPT !.descent_level = @ + 1]

\* Flattens a sequence of sequences
RECURSIVE concat(_)
concat(ss) == IF ss = <<>> THEN <<>> ELSE Head(ss) \o concat(Tail(ss))

\* Handler.__call__ without lines 173-174, an object without encoder being
\* passed over: the fault C25 excludes
call_passing_unknown(r, srv, o, unloaded) ==
    IF ~get_encoder(o) THEN r
    ELSE IF ~o.loaded /\ unloaded = "raise" THEN fail(r, 1, "UnloadedEntityException")
    ELSE handle(r, srv, encode(srv, o))

\* Handler.__call__.  unloaded is what the encoder does with an unloaded proxy:
\* "fields" (it writes '@type' and '@id') or "raise".
call(r, srv, o, unloaded) ==
    IF ~get_encoder(o) THEN fail(r, 1, "Exception: unknown")
    ELSE IF ~o.loaded /\ unloaded = "raise" THEN fail(r, 1, "UnloadedEntityException")
    ELSE handle(r, srv, encode(srv, o))

\* Handler.annotations: per linked annotation, annid = self(annotation) and
\* contains(objid, annid)
annotations(h, srv, o, objid) ==
    LET anns == listAnnotations(srv, o)
    IN  concat([i \in 1..Len(anns) |->
                  <<HandlerCall(anns[i]), ContainsCall(objid, id_of(h, srv, anns[i]))>>])

\* The body of descend for a target of a known type, after its _lookup: the
\* calls it makes, in order.
descend_calls(h, srv, o) ==
    LET oid == id_of(h, srv, o)
        kids == listChildren(srv, o)
    IN  CASE o.cls = "Screen" ->
                <<HandlerCall(o)>>
                \o concat([i \in 1..Len(kids) |->
                     <<DescendCall(kids[i]), ContainsCall(oid, id_of(h, srv, kids[i]))>>])
                \o <<AnnotationsCall(o, oid)>>
          [] o.cls = "Plate" ->
                <<HandlerCall(o), AnnotationsCall(o, oid)>>
                \o concat([i \in 1..Len(kids) |->
                     LET well == kids[i]
                         wid == id_of(h, srv, well)
                         imgs == listChildren(srv, well)
                     IN  <<HandlerCall(well), ContainsCall(oid, wid)>>
                         \o concat([j \in 1..Len(imgs) |->
                              <<DescendCall(imgs[j]),
                                ContainsCall(wid, id_of(h, srv, imgs[j]))>>])])
          [] o.cls \in {"Project", "Dataset"} ->
                <<HandlerCall(o), AnnotationsCall(o, oid)>>
                \o concat([i \in 1..Len(kids) |->
                     <<DescendCall(kids[i]), ContainsCall(oid, id_of(h, srv, kids[i]))>>])
          [] o.cls = "Image" ->
                LET pix == getPrimaryPixels(srv, o)
                    pixid == IF pix = <<>> THEN Unbound ELSE id_of(h, srv, pix[1])
                    rois == _get_rois(srv, o)
                IN  <<HandlerCall(o)>>
                    \o (IF pix = <<>> THEN <<>>
                        ELSE <<HandlerCall(pix[1]), ContainsCall(oid, pixid)>>)
                    \o <<AnnotationsCall(o, oid)>>
                    \o concat([i \in 1..Len(rois) |->
                         LET roi == rois[i]
                             roiid == id_of(h, srv, roi)
                             shapes == iterateShapes(srv, roi)
                         IN  <<HandlerCall(roi), AnnotationsCall(roi, roiid),
                               ContainsCall(pixid, roiid)>>
                             \o concat([j \in 1..Len(shapes) |->
                                  LET shapeid == id_of(h, srv, shapes[j])
                                  IN  <<HandlerCall(shapes[j]),
                                        AnnotationsCall(shapes[j], shapeid),
                                        ContainsCall(roiid, shapeid)>>])])

\* RdfControl.descend / Handler.descend for one target (lines 375-440): the
\* pending descend call on top of the stack is replaced by the calls it makes.
descend(r, srv) ==
    LET o == Head(r.stack).o
        rest == Tail(r.stack)
    IN  IF skip_descent(r.handler)
        THEN [r EXCEPT !.stack = <<HandlerCall(o)>> \o rest]
        ELSE LET r1 == [r EXCEPT !.handler = descending(@), !.stack = rest]
             IN  IF o.cls \in {"Screen", "Plate", "Project", "Dataset", "Image"}
                 THEN \* _lookup
                      IF ~exists(srv, o.cls, o.id)
                      THEN fail(r1, 110, "No such " \o o.cls)
                      ELSE [r1 EXCEPT !.stack =
                               descend_calls(r1.handler, srv, Obj(o.cls, o.id)) \o rest]
                 ELSE fail(r1, 111, "unknown target: " \o o.cls)

\* objid = handler(o) for the pending call on top of the stack
call_step(r, srv, unloaded) ==
    call([r EXCEPT !.stack = Tail(@)], srv, Head(r.stack).o, unloaded)

\* handler.annotations(o, objid) for the pending call on top of the stack
annotations_step(r, srv) ==
    [r EXCEPT !.stack = annotations(r.handler, srv, Head(@).o, Head(@).a) \o Tail(@)]

\* handler.contains(parent, child) for the pending call on top of the stack;
\* pixid is unbound when the Image has no primary pixels
contains_step(r) ==
    LET it == Head(r.stack)
        r1 == [r EXCEPT !.stack = Tail(@)]
    IN  IF it.a = Unbound THEN fail(r1, 1, "UnboundLocalError: pixid")
        ELSE contains(r1, it.a, it.b)

\* An exception unwinds the pending calls.
unwind(r) == IF r.status # OK THEN [r EXCEPT !.stack = <<>>] ELSE r

-----------------------------------------------------------------------------
(* RdfControl._validate_extensions *)

\* str.lower()
RECURSIVE lower(_)
lower(s) ==
    IF Len(s) = 0 THEN s
    ELSE CharAt(Lower, Ord(CharAt(s, 1))) \o lower(Tail(s))

\* str.replace(old, "")
RECURSIVE remove(_, _)
remove(s, old) ==
    IF Len(s) = 0 THEN s
    ELSE IF startswith(s, old) THEN remove(SubSeq(s, Len(old) + 1, Len(s)), old)
    ELSE CharAt(s, 1) \o remove(Tail(s), old)

\* An extension_map that takes only .jsonld for the JSON-LD formats: the fault
\* C13 excludes
extension_map_jsonld_only(format_string) ==
    CASE format_string = "ntriples" -> {"nt"}
      [] format_string = "turtle" -> {"ttl"}
      [] format_string \in {"jsonld", "ro-crate"} -> {"jsonld"}
      [] OTHER -> {}

\* _validate_extensions lines 106-111
extension_map(format_string) ==
    CASE format_string = "ntriples" -> {"nt"}
      [] format_string = "turtle" -> {"ttl"}
      [] format_string \in {"jsonld", "ro-crate"} -> {"jsonld", "json"}
      [] OTHER -> {}

\* The records _validate_extensions logs and the messages it hands to ctx, in
\* order.  It returns None on every path.
_validate_extensions(a, answer) ==
    IF a.file # "" /\ a.file # "-"
    THEN LET lowered == lower(a.file)
             filename == IF endswith(lowered, ".gz") THEN remove(lowered, ".gz")
                         ELSE lowered
             file_extension == split_last(filename, ".")
             format_string == a.format
             valid_exts == extension_map(format_string)
             w1 == IF a.pretty /\ (format_string # "turtle" \/ file_extension # "ttl")
                   THEN <<"warning: --pretty sets output format to Turtle">> ELSE <<>>
             w2 == IF valid_exts # {} /\ file_extension \notin valid_exts
                   THEN <<"warning: extension does not match format">> ELSE <<>>
             w3 == IF ~a.yes
                   THEN <<"out: This may cause incorrect output formatting.">>
                        \o (IF lower(strip(answer)) \notin {"y", "yes"}
                            THEN <<"err: Aborted by user.">> ELSE <<>>)
                   ELSE <<>>
         IN  w1 \o w2 \o w3
    ELSE <<>>

-----------------------------------------------------------------------------
(* The command: gateway_required(RdfControl.action) *)

NoHandler ==
    [constructed |-> FALSE, cache |-> {}, bnode |-> 0, minted |-> 0,
     formatter |-> "", graph |-> {}, trim_whitespace |-> FALSE,
     use_ellide |-> FALSE, first_handler_wins |-> FALSE, descent |-> "",
     descent_level |-> 0, annotation_handlers |-> <<>>, host |-> ""]

\* Handler.__init__
Handler(formatter, trim_whitespace, use_ellide, first_handler_wins, descent, eps, srv) ==
    [constructed |-> TRUE, cache |-> {}, bnode |-> 0, minted |-> 0,
     formatter |-> formatter, graph |-> {}, trim_whitespace |-> trim_whitespace,
     use_ellide |-> use_ellide, first_handler_wins |-> first_handler_wins,
     descent |-> descent, descent_level |-> 0,
     annotation_handlers |-> eps,      \* load_handlers
     host |-> srv.host]                \* load_server

NoFile == [name |-> "", opened |-> FALSE, created |-> FALSE, closed |-> FALSE,
           lines |-> <<>>, docs |-> <<>>]

\* open_with_default(filename): stdout for None and "-", else the file is
\* created (or truncated) for writing
open_with_default(filename) ==
    [NoFile EXCEPT !.name = filename, !.opened = TRUE,
                   !.created = (filename # "" /\ filename # "-")]

\* No run
NoRun == [handler |-> NoHandler, fh |-> NoFile, stack |-> <<>>, status |-> OK,
          log |-> <<>>]

\* No call under test
NoCall == [v |-> [t |-> "none"], returned |-> FALSE, lit |-> None]

Run == [handler |-> handler, fh |-> fh, stack |-> stack, status |-> status, log |-> log]

\* The run after a step of the traversal; an exception leaves the with block.
Becomes(r) ==
    LET u == unwind(r)
    IN  /\ handler' = u.handler
        /\ fh' = u.fh
        /\ stack' = u.stack
        /\ status' = u.status
        /\ log' = u.log
        /\ pc' = IF u.status # OK THEN "exit_fh" ELSE pc

Targets == {Proxy("Project", 1), Proxy("Image", 1), Proxy("Image", 9),
            Proxy("Screen", 1), Proxy("Well", 1)}

TargetLists == UNION {[1..n -> Targets] : n \in 1..MaxTargets}

\* The command lines that exercise the traversal: output to stdout
TraversalArgs ==
    {[target |-> t, format |-> f, pretty |-> FALSE, descent |-> d, ellide |-> FALSE,
      first_handler_wins |-> w, trim_whitespace |-> FALSE, file |-> "", yes |-> FALSE] :
        t \in TargetLists, f \in {"ntriples", "turtle"}, d \in {"recursive", "flat"},
        w \in BOOLEAN}

\* The command lines that exercise the handler chain and malformed input
PluginArgs ==
    {[target |-> t, format |-> f, pretty |-> FALSE, descent |-> "recursive",
      ellide |-> FALSE, first_handler_wins |-> w, trim_whitespace |-> FALSE, file |-> "",
      yes |-> FALSE] :
        t \in {<<Proxy("Image", 1)>>, <<Proxy("Image", 1), Proxy("Screen", 1)>>},
        f \in {"ntriples", "turtle"}, w \in BOOLEAN}

\* The command lines that exercise --file, --format, --pretty and the prompt
FileArgs ==
    {[target |-> <<t>>, format |-> fp[1], pretty |-> fp[2],
      descent |-> "recursive", ellide |-> FALSE, first_handler_wins |-> FALSE,
      trim_whitespace |-> tw, file |-> file, yes |-> y] :
        fp \in (FormatNames \X {FALSE}) \cup {<<"ntriples", TRUE>>, <<"turtle", TRUE>>},
        t \in {Proxy("Image", 2), Proxy("Project", 2)},
        tw \in BOOLEAN, file \in {"-", "out.nt", "out.ttl", "OUT.JSON.gz"},
        y \in BOOLEAN}

Init ==
    /\ \/ /\ args \in TraversalArgs
          /\ server \in Servers
          /\ registry \in {<<>>, <<"idr">>}
          /\ reply = "n"
       \/ /\ args \in FileArgs
          /\ server \in {s \in Servers : s.noid = {} /\ s.wikidata}
          /\ registry = <<"idr">>
          /\ reply \in {"y", "n"}
       \/ /\ args \in PluginArgs
          /\ server \in PluginServers
          /\ registry \in {<<>>, <<"idr">>, <<"idr", "idr2">>}
          /\ reply = "n"
    /\ pc = "start"
    /\ gateway = "none"
    /\ closes = 0
    /\ handler = NoHandler
    /\ stack = <<>>
    /\ fh = NoFile
    /\ status = OK
    /\ log = <<>>
    /\ twin = NoRun
    /\ probe = NoCall

\* _wrapper lines 82-83: self.client = self.ctx.conn(*args) and the gateway on
\* it; ctx.conn may fail, before the try block
Connect ==
    /\ pc = "start"
    /\ \/ /\ gateway' = "open"
          /\ pc' = "validate"
          /\ UNCHANGED status
       \/ /\ status' = Failed(1, "ctx.conn failed")
          /\ pc' = "done"
          /\ UNCHANGED gateway
    /\ UNCHANGED <<args, server, reply, closes, handler, stack, fh, log, registry, twin, probe>>

\* action line 84
Validate ==
    /\ pc = "validate"
    /\ log' = log \o _validate_extensions(args, reply)
    /\ pc' = "format"
    /\ UNCHANGED <<args, server, reply, gateway, closes, handler, stack, fh, status,
                   registry, twin, probe>>

\* action lines 87-90
SelectFormat ==
    /\ pc = "format"
    /\ args' = [args EXCEPT !.format = IF args.pretty THEN "turtle" ELSE args.format]
    /\ pc' = "open"
    /\ UNCHANGED <<server, reply, gateway, closes, handler, stack, fh, status, log,
                   registry, twin, probe>>

\* action line 92
OpenFile ==
    /\ pc = "open"
    /\ fh' = open_with_default(args.file)
    /\ pc' = "construct"
    /\ UNCHANGED <<args, server, reply, gateway, closes, handler, stack, status, log,
                   registry, twin, probe>>

\* action lines 93-102: the Handler is made and descend is called with the list
\* of targets, which descends into each of them in turn
Construct ==
    /\ pc = "construct"
    /\ handler' = Handler(args.format, args.trim_whitespace, args.ellide,
                          args.first_handler_wins, args.descent, registry, server)
    /\ stack' = [i \in 1..Len(args.target) |-> DescendCall(args.target[i])]
    /\ pc' = "traverse"
    /\ UNCHANGED <<args, server, reply, gateway, closes, fh, status, log, registry, twin, probe>>

Top(op) == pc = "traverse" /\ stack # <<>> /\ Head(stack).op = op

Descend ==
    /\ Top("descend")
    /\ Becomes(descend(Run, server))
    /\ UNCHANGED <<args, server, reply, gateway, closes, registry, twin, probe>>

Call ==
    /\ Top("call")
    /\ \E unloaded \in IF Head(stack).o.loaded THEN {"fields"} ELSE {"fields", "raise"} :
            Becomes(call_step(Run, server, unloaded))
    /\ UNCHANGED <<args, server, reply, gateway, closes, registry, twin, probe>>

Annotations ==
    /\ Top("annotations")
    /\ Becomes(annotations_step(Run, server))
    /\ UNCHANGED <<args, server, reply, gateway, closes, registry, twin, probe>>

Contains ==
    /\ Top("contains")
    /\ Becomes(contains_step(Run))
    /\ UNCHANGED <<args, server, reply, gateway, closes, registry, twin, probe>>

\* action line 103: handler.close(), reached when descend has returned
Close ==
    /\ pc = "traverse"
    /\ stack = <<>>
    /\ LET r == close(Run)
       IN  /\ fh' = r.fh
           /\ status' = r.status
    /\ pc' = "exit_fh"
    /\ UNCHANGED <<args, server, reply, gateway, closes, handler, stack, log, registry, twin, probe>>

\* open_with_default lines 66-68: the file is closed, stdout is not
ExitFile ==
    /\ pc = "exit_fh"
    /\ fh' = [fh EXCEPT !.closed = fh.created]
    /\ pc' = "finally"
    /\ UNCHANGED <<args, server, reply, gateway, closes, handler, stack, status, log,
                   registry, twin, probe>>

\* _wrapper with the close after the call instead of in a finally clause: the
\* fault C10 excludes
Finally_on_return ==
    /\ pc = "finally"
    /\ IF gateway # "none" /\ status = OK
       THEN gateway' = "closed" /\ closes' = closes + 1
       ELSE UNCHANGED <<gateway, closes>>
    /\ pc' = "done"
    /\ UNCHANGED <<args, server, reply, handler, stack, fh, status, log, registry, twin, probe>>

\* _wrapper lines 87-91
Finally ==
    /\ pc = "finally"
    /\ IF gateway # "none"
       THEN gateway' = "closed" /\ closes' = closes + 1
       ELSE UNCHANGED <<gateway, closes>>
    /\ pc' = "done"
    /\ UNCHANGED <<args, server, reply, handler, stack, fh, status, log, registry, twin, probe>>

Next ==
    \/ Connect
    \/ Validate
    \/ SelectFormat
    \/ OpenFile
    \/ Construct
    \/ Descend
    \/ Call
    \/ Annotations
    \/ Contains
    \/ Close
    \/ ExitFile
    \/ Finally

Spec == Init /\ [][Next]_vars

-----------------------------------------------------------------------------
(* Two runs of one export, side by side: the run of the variables with the  *)
(* streaming format, its twin with a buffering one.  Both start where       *)
(* action has made the Handler and is about to call descend, both meet the  *)
(* same server, and each step is taken by both.                             *)

\* The command lines of the comparison
EqArgs ==
    {[target |-> t, format |-> "ntriples", pretty |-> FALSE, descent |-> d,
      ellide |-> e, first_handler_wins |-> w, trim_whitespace |-> tw, file |-> "",
      yes |-> FALSE] :
        t \in {<<x>> : x \in Targets}
              \cup {<<Proxy("Project", 1), Proxy("Image", 1)>>,
                    <<Proxy("Image", 1), Proxy("Well", 1)>>},
        d \in {"recursive", "flat"}, e \in BOOLEAN, w \in BOOLEAN, tw \in BOOLEAN}

\* The run of a command line with the given format, after action lines 93-101
Constructed(a, fmt, eps, srv) ==
    [handler |-> Handler(fmt, a.trim_whitespace, a.ellide, a.first_handler_wins,
                         a.descent, eps, srv),
     fh |-> open_with_default(a.file),
     stack |-> [i \in 1..Len(a.target) |-> DescendCall(a.target[i])],
     status |-> OK,
     log |-> <<>>]

InitEq ==
    /\ args \in EqArgs
    /\ server \in Servers
    /\ registry \in {<<>>, <<"idr">>}
    /\ reply = "n"
    /\ pc = "traverse"
    /\ gateway = "open"
    /\ closes = 0
    /\ handler = Constructed(args, "ntriples", registry, server).handler
    /\ stack = Constructed(args, "ntriples", registry, server).stack
    /\ fh = Constructed(args, "ntriples", registry, server).fh
    /\ status = OK
    /\ log = <<>>
    /\ twin \in {Constructed(args, f, registry, server) : f \in FormatNames \ {"ntriples"}}
    /\ probe = NoCall

\* The pending call of run r, whatever it is
step(r, srv, unloaded) ==
    IF r.stack = <<>> \/ r.status # OK THEN r
    ELSE unwind(CASE Head(r.stack).op = "descend" -> descend(r, srv)
                  [] Head(r.stack).op = "call" -> call_step(r, srv, unloaded)
                  [] Head(r.stack).op = "annotations" -> annotations_step(r, srv)
                  [] OTHER -> contains_step(r))

EqDescend ==
    /\ Top("descend")
    /\ Becomes(descend(Run, server))
    /\ twin' = step(twin, server, "fields")
    /\ UNCHANGED <<args, server, reply, gateway, closes, registry, probe>>

EqCall ==
    /\ Top("call")
    /\ \E unloaded \in IF Head(stack).o.loaded THEN {"fields"} ELSE {"fields", "raise"} :
          /\ Becomes(call_step(Run, server, unloaded))
          /\ twin' = step(twin, server, unloaded)
    /\ UNCHANGED <<args, server, reply, gateway, closes, registry, probe>>

EqAnnotations ==
    /\ Top("annotations")
    /\ Becomes(annotations_step(Run, server))
    /\ twin' = step(twin, server, "fields")
    /\ UNCHANGED <<args, server, reply, gateway, closes, registry, probe>>

EqContains ==
    /\ Top("contains")
    /\ Becomes(contains_step(Run))
    /\ twin' = step(twin, server, "fields")
    /\ UNCHANGED <<args, server, reply, gateway, closes, registry, probe>>

NextEq ==
    \/ EqDescend
    \/ EqCall
    \/ EqAnnotations
    \/ EqContains

SpecEq == InitEq /\ [][NextEq]_vars

-----------------------------------------------------------------------------
(* Handler.literal on its own: a Handler with either setting of                *)
(* trim_whitespace and use_ellide is handed one value.                         *)

\* 62 characters
Alphabet62 == "abcdefghijklmnopqrstuvwxyzABCDEFGHIJKLMNOPQRSTUVWXYZ0123456789"

\* The values handed to literal: strings of up to 50 characters and longer
\* ones, with and without spaces and tabs at their ends, and a number
LiteralValues ==
    {Str(s) : s \in {"", " ", "foo", " foo", "foo ", " foo ", "  foo", "a b", "\tfoo",
                     " foo\t", "foo\t",
                     SubSeq(Alphabet62, 1, 50),
                     SubSeq(Alphabet62, 1, 51),
                     Alphabet62,
                     " " \o SubSeq(Alphabet62, 1, 49),
                     SubSeq(Alphabet62, 1, 49) \o " ",
                     " " \o SubSeq(Alphabet62, 1, 50),
                     SubSeq(Alphabet62, 1, 50) \o " ",
                     SubSeq(Alphabet62, 1, 58) \o " x",
                     " " \o SubSeq(Alphabet62, 1, 38) \o " " \o SubSeq(Alphabet62, 1, 20)}}
    \cup {Num(7)}

InitLiteral ==
    /\ args \in {a \in FileArgs : /\ a.file = "-" /\ a.format = "ntriples" /\ ~a.pretty
                                  /\ ~a.yes /\ a.target = <<Proxy("Image", 2)>>}
    /\ server = Server(2, <<>>, {}, TRUE)
    /\ registry = <<>>
    /\ reply = "n"
    /\ pc = "literal"
    /\ gateway = "open"
    /\ closes = 0
    /\ \E use_ellide \in BOOLEAN :
          handler = Handler(args.format, args.trim_whitespace, use_ellide,
                            args.first_handler_wins, args.descent, registry, server)
    /\ stack = <<>>
    /\ fh = open_with_default(args.file)
    /\ status = OK
    /\ log = <<>>
    /\ twin = NoRun
    /\ \E v \in LiteralValues : probe = [NoCall EXCEPT !.v = v]

\* self.literal(v)
LiteralCall ==
    /\ pc = "literal"
    /\ ~probe.returned
    /\ probe' = [probe EXCEPT !.returned = TRUE, !.lit = literal(handler, probe.v).lit]
    /\ log' = IF literal(handler, probe.v).warned THEN Append(log, "whitespace") ELSE log
    /\ UNCHANGED <<args, server, reply, pc, gateway, closes, handler, stack, fh, status,
                   registry, twin>>

SpecLiteral == InitLiteral /\ [][LiteralCall]_vars

-----------------------------------------------------------------------------
(* Handler.get_identity on its own: one call per behaviour, on a Handler in   *)
(* any state of its visited-set and of its blank-node counter                 *)

MaxId == 4

\* Type names as get_type returns them (class names of the server, with and
\* without the suffix I of the implementation classes) and the name the
\* default path of an annotation passes
TypeNames ==
    {"Image", "ImageI", "Roi", "RoiI", "ROI", "ROII", "MapAnnotation",
     "MapAnnotationI", "AnnotationTBD", "I", "II", "UNKNOWN"}

Hosts == {"omero.example.org", "idr.example.org"}

InitIdentity ==
    /\ args \in {a \in FileArgs : /\ a.file = "-" /\ a.format = "ntriples" /\ ~a.pretty
                                  /\ ~a.yes /\ a.target = <<Proxy("Image", 2)>>
                                  /\ ~a.trim_whitespace}
    /\ \E host \in Hosts : server = [Server(2, <<>>, {}, TRUE) EXCEPT !.host = host]
    /\ registry = <<>>
    /\ reply = "n"
    /\ pc = "get_identity"
    /\ gateway = "open"
    /\ closes = 0
    /\ \E bnode \in {0, 1}, visited \in BOOLEAN :
          handler = [Handler(args.format, args.trim_whitespace, args.ellide,
                             args.first_handler_wins, args.descent, registry, server)
                        EXCEPT !.bnode = bnode,
                               !.cache = IF visited
                                         THEN {URIRef("https://" \o server.host \o "/Image/1")}
                                         ELSE {}]
    /\ stack = <<>>
    /\ fh = open_with_default(args.file)
    /\ status = OK
    /\ log = <<>>
    /\ twin = NoRun
    /\ \E _type \in TypeNames, _id \in 0..MaxId :
          probe = [NoCall EXCEPT !.v = List(<<Str(_type), Num(_id)>>)]

\* self.get_identity(_type, _id)
IdentityCall ==
    /\ pc = "get_identity"
    /\ ~probe.returned
    /\ probe' = [probe EXCEPT !.returned = TRUE,
                              !.lit = get_identity(handler, probe.v.l[1].s,
                                                   pystr(probe.v.l[2]))]
    /\ UNCHANGED <<args, server, reply, pc, gateway, closes, handler, stack, fh, status,
                   log, registry, twin>>

SpecIdentity == InitIdentity /\ [][IdentityCall]_vars

-----------------------------------------------------------------------------
(* Observing the output.  A streaming run prints N-Triples lines, a         *)
(* buffering run adds triples to the graph; both are read as tuples of the  *)
(* N3 forms of subject, predicate and object.                               *)

Range(s) == {s[i] : i \in DOMAIN s}

\* The position of the first c in s at or after i, 0 when there is none
RECURSIVE find(_, _, _)
find(s, c, i) ==
    IF i > Len(s) THEN 0
    ELSE IF CharAt(s, i) = c THEN i
    ELSE find(s, c, i + 1)

\* The three fields of a printed line, its tabs at i and j, without the " ."
fields_at(l, i, j) ==
    <<SubSeq(l, 1, i - 1), SubSeq(l, i + 1, j - 1), SubSeq(l, j + 1, Len(l) - 2)>>
fields_from(l, i) == fields_at(l, i, find(l, "\t", i + 1))
fields(l) == fields_from(l, find(l, "\t", 1))

\* The N3 forms of a triple of the graph
terms(t) == <<n3(t[1]), n3(t[2]), n3(t[3])>>

\* What a step hands to the output: the lines it prints, the triples it adds
NewLines == SubSeq(fh'.lines, Len(fh.lines) + 1, Len(fh'.lines))
Emitted ==
    {fields(l) : l \in Range(NewLines)}
    \cup {terms(t) : t \in handler'.graph \ handler.graph}

\* An attribute triple: what the generic expansion of a payload yields for its
\* '@type' and its keys, as opposed to a containment edge and to the Wikidata
\* statements of an annotation handler.
is_attribute(c) ==
    \/ startswith(c[2], "<" \o OME)
    \/ startswith(c[2], "<" \o OMERO)
    \/ c[2] = n3(RDF_type) /\ ~startswith(c[3], "<" \o WD)

\* The objects a traversal of the server can meet
Entities(srv) ==
    srv.objects
    \cup {Obj("Well", 1), Obj("Pixels", 1), Obj("Pixels", 2), Obj("Roi", 1),
          Obj("Roi", 2), Obj("Shape", 1), Obj("MapAnnotation", 1),
          Obj("CommentAnnotation", 2)}

Image1 == Obj("Image", 1)
MapAnnotation1 == Obj("MapAnnotation", 1)

\* The subject of an object in this run
subject(o) == id_of(handler, server, o)

\* The line of a triple
line(s, p, o) == serialize_triple("ntriples", <<s, p, o>>).line

\* How often a line was printed
count(l) == Cardinality({i \in DOMAIN fh.lines : fh.lines[i] = l})

\* The number of containment edges printed that make s a part of something: the
\* paths by which the traversal reached s
paths(s) ==
    Cardinality({i \in DOMAIN fh.lines :
        startswith(fh.lines[i], n3(s) \o "\t" \o n3(DCTERMS_isPartOf) \o "\t")})

\* The rdf:type line of an object
type_line(o) == line(subject(o), RDF_type, URIRef(encode(server, o)["@type"].s))

\* The printed attribute lines with subject s
attribute_lines(s) ==
    {i \in DOMAIN fh.lines :
        /\ startswith(fh.lines[i], n3(s) \o "\t")
        /\ is_attribute(fields(fh.lines[i]))}

no_line_twice(I) == \A i, j \in I : fh.lines[i] = fh.lines[j] => i = j

\* An annotation a registered handler claims while first_handler_wins is set:
\* Handler.rdf returns at line 256
claimed(o) ==
    /\ handler.first_handler_wins
    /\ contains_str(get_type(encode(server, o)), "Annotation")
    /\ \E i \in DOMAIN handler.annotation_handlers :
          call_handler(handler.annotation_handlers[i], handler, server,
                       [cache |-> {}, bnode |-> 0, minted |-> 0, out |-> <<>>,
                        err |-> "", warn |-> <<>>],
                       None, None, encode(server, o)).handled

StreamingDone == pc = "done" /\ handler.constructed /\ streaming(handler.formatter)

-----------------------------------------------------------------------------
(* C1 *)

\* C1 as stated: in the output of a streaming run, every subject reached by two
\* paths has its attribute triples exactly once: its rdf:type line is there
\* once and none of its attribute lines is there twice.
C1_ExactlyOnce ==
    StreamingDone =>
        \A o \in Entities(server) :
            paths(subject(o)) >= 2 =>
                /\ count(type_line(o)) = 1
                /\ no_line_twice(attribute_lines(subject(o)))

\* C1, amended: every subject reached by two paths has its attribute triples
\* at most once, and exactly once unless it is an annotation that a handler
\* claims under first-handler-wins, whose attribute triples are not in the
\* output at all.
C1_IdempotentVisitation ==
    StreamingDone =>
        \A o \in Entities(server) :
            paths(subject(o)) >= 2 =>
                /\ count(type_line(o)) = IF claimed(o) THEN 0 ELSE 1
                /\ no_line_twice(attribute_lines(subject(o)))

\* A Project was exported whose Datasets share Image 1: the Image was reached by
\* two paths, its attributes are there once, the containment edge from its
\* Pixels is there twice.
C1_Witness ==
    /\ StreamingDone
    /\ status = OK
    /\ paths(subject(Image1)) = 2
    /\ count(type_line(Image1)) = 1
    /\ count(line(subject(Obj("Pixels", 1)), DCTERMS_isPartOf, subject(Image1))) = 2
    /\ paths(subject(MapAnnotation1)) >= 2

-----------------------------------------------------------------------------
(* C2 *)

\* The pending call revisits a subject of the visited-set
Revisit == Top("call") /\ subject(Head(stack).o) \in handler.cache

\* C2: no step emits an attribute triple whose subject was in the visited-set
\* before the step, and a call of the handler for a subject of the visited-set
\* raises nothing (unless the encoder raised before Handler.rdf was called).
C2_VisitedSet ==
    [][/\ \A c \in Emitted :
            is_attribute(c) => c[1] \notin {n3(s) : s \in handler.cache}
       /\ Revisit => status'.exc \in {"", "UnloadedEntityException"}]_vars

\* Image 1 was revisited under Dataset 2: the edge to Dataset 2 is pending, the
\* one to Dataset 1 is printed and the traversal goes on.
C2_Witness ==
    /\ Top("contains")
    /\ Head(stack).b = subject(Image1)
    /\ Head(stack).a = subject(Obj("Dataset", 2))
    /\ subject(Image1) \in handler.cache
    /\ args.descent = "recursive"
    /\ status = OK

-----------------------------------------------------------------------------
(* C3 *)

\* The command exports Project 1 with --descent flat
FlatProject == args.descent = "flat" /\ args.target = <<Proxy("Project", 1)>>

\* The N3 forms of the subjects of the output so far
subjects ==
    {SubSeq(fh.lines[i], 1, find(fh.lines[i], "\t", 1) - 1) : i \in DOMAIN fh.lines}
    \cup {n3(t[1]) : t \in handler.graph}

\* s is the identity of an object of type cls
of_type(s, cls) == startswith(s, "<https://" \o server.host \o "/" \o cls \o "/")

\* The output so far holds the triple
in_output(s, p, o) ==
    \/ line(s, p, o) \in Range(fh.lines)
    \/ <<s, p, o>> \in handler.graph

-----------------------------------------------------------------------------
(* C4 *)

\* The parent/child pairs of the server: children, primary pixels, ROIs,
\* shapes and linked annotations
Links(srv) ==
    {<<p, c>> \in Entities(srv) \X Entities(srv) :
        \/ c \in Range(listChildren(srv, p))
        \/ c \in Range(listAnnotations(srv, p))
        \/ p.cls = "Image" /\ c \in Range(getPrimaryPixels(srv, p))
        \/ /\ p.cls = "Pixels"
           /\ \E img \in {i \in srv.objects : i.cls = "Image"} :
                 p \in Range(getPrimaryPixels(srv, img)) /\ c \in Range(_get_rois(srv, img))
        \/ p.cls = "Roi" /\ c \in Range(iterateShapes(srv, p))}

\* The first target of the command, as the object _lookup finds
Target1 == Obj(args.target[1].cls, args.target[1].id)

\* The objects below o
RECURSIVE below(_, _, _)
below(srv, S, n) ==
    IF n = 0 THEN S
    ELSE below(srv, S \cup {l[2] : l \in {k \in Links(srv) : k[1] \in S}}, n - 1)

mirror(c) ==
    IF c[2] = n3(DCTERMS_isPartOf) THEN <<c[3], n3(DCTERMS_hasPart), c[1]>>
    ELSE <<c[3], n3(DCTERMS_isPartOf), c[1]>>

\* C4: a call of contains hands both edges to the output; no step hands over
\* an edge without the opposite one, so that the graph never holds one without
\* the other; and when a recursive export ends well, both edges of every pair
\* below its first target are in the output.
C4_BidirectionalContainment ==
    /\ [][/\ (Top("contains") /\ status' = OK) =>
                IF streaming(handler.formatter)
                THEN NewLines = <<line(Head(stack).b, DCTERMS_isPartOf, Head(stack).a),
                                  line(Head(stack).a, DCTERMS_hasPart, Head(stack).b)>>
                ELSE {<<Head(stack).b, DCTERMS_isPartOf, Head(stack).a>>,
                      <<Head(stack).a, DCTERMS_hasPart, Head(stack).b>>}
                        \subseteq handler'.graph
          /\ \A c \in Emitted :
                c[2] \in {n3(DCTERMS_isPartOf), n3(DCTERMS_hasPart)} =>
                    \/ mirror(c) \in Emitted
                    \/ mirror(c) \in {terms(t) : t \in handler.graph}]_vars
    /\ [](\A t \in handler.graph :
            /\ t[2] = DCTERMS_isPartOf => <<t[3], DCTERMS_hasPart, t[1]>> \in handler.graph
            /\ t[2] = DCTERMS_hasPart => <<t[3], DCTERMS_isPartOf, t[1]>> \in handler.graph)
    /\ []((pc = "done" /\ handler.constructed /\ status = OK
           /\ args.descent = "recursive") =>
            \A l \in Links(server) :
                l[1] \in below(server, {Target1}, 6) =>
                    /\ in_output(subject(l[2]), DCTERMS_isPartOf, subject(l[1]))
                    /\ in_output(subject(l[1]), DCTERMS_hasPart, subject(l[2])))

\* A recursive export of Screen 1 ended well: the edges between Well 1 and
\* Image 2 and between Image 2 and its annotation are in the output.
C4_Witness ==
    /\ pc = "done"
    /\ status = OK
    /\ args.target = <<Proxy("Screen", 1)>>
    /\ in_output(subject(Obj("Image", 2)), DCTERMS_isPartOf, subject(Obj("Well", 1)))
    /\ in_output(subject(Obj("Well", 1)), DCTERMS_hasPart, subject(Obj("Image", 2)))
    /\ in_output(subject(Obj("CommentAnnotation", 2)), DCTERMS_isPartOf,
                 subject(Obj("Image", 2)))

-----------------------------------------------------------------------------
(* C5 *)

\* The pending call is for an object whose encoding lacks '@id'
CallWithoutId ==
    /\ Top("call")
    /\ Head(stack).o.loaded
    /\ get_encoder(Head(stack).o)
    /\ "@id" \notin DOMAIN encode(server, Head(stack).o)

\* C5: Handler.handle of an encoded object without '@id' raises the
\* missing-id exception, hands nothing to the output and leaves the Handler,
\* its visited-set included, as it was.
C5_MissingIdentity ==
    [][CallWithoutId =>
          /\ status' = Failed(1, "Exception: missing id")
          /\ fh' = fh
          /\ handler' = handler]_vars

\* The run ended with the missing-id exception of CommentAnnotation 2.
C5_Witness ==
    /\ pc = "done"
    /\ status = Failed(1, "Exception: missing id")
    /\ server.noid = {2}
    /\ subject(Obj("Image", 2)) \in handler.cache

-----------------------------------------------------------------------------
(* C6 *)

\* C6 as stated: when the file's extension does not match the format, no
\* --yes is given and the user declines, nothing follows the prompt: no
\* Handler is made, no traversal runs, the file is neither created nor written.
C6_AbortOnDecline ==
    (/\ "warning: extension does not match format" \in Range(log)
     /\ "err: Aborted by user." \in Range(log))
    => /\ ~handler.constructed
       /\ ~fh.opened
       /\ ~fh.created
       /\ fh.lines = <<>>
       /\ fh.docs = <<>>

-----------------------------------------------------------------------------
(* C7 *)

\* The N-Triples lines of a set of triples
lines_of(graph) == {line(t[1], t[2], t[3]) : t \in graph}

\* C7: at every point of the two runs, the triples the streaming format has
\* printed are the triples the buffering format has in its graph (blank nodes
\* are numbered in the order of their making in both), and the runs agree on
\* what is still to do, what was visited, what was logged and how they ended.
C7_FormatEquivalence ==
    /\ Range(fh.lines) = lines_of(twin.handler.graph)
    /\ twin.fh.lines = <<>>
    /\ handler.graph = {}
    /\ stack = twin.stack
    /\ status = twin.status
    /\ handler.cache = twin.handler.cache
    /\ log = twin.log

\* An export of Project 1 and Image 1 ended well in both runs, with blank nodes
\* and with repeated lines that the graph holds once.
C7_Witness ==
    /\ twin.handler.formatter = "jsonld"
    /\ args.target = <<Proxy("Project", 1), Proxy("Image", 1)>>
    /\ args.trim_whitespace
    /\ stack = <<>>
    /\ status = OK
    /\ \E t \in twin.handler.graph : t[1].k = "bnode"
    /\ Cardinality(twin.handler.graph) < Len(fh.lines)
    /\ Cardinality(twin.handler.graph) > 20

-----------------------------------------------------------------------------
(* C8 *)

\* The pending call is descend for a target of the command line
TargetPending == Top("descend") /\ ~Head(stack).o.loaded

KnownTypes == {"Screen", "Plate", "Project", "Dataset", "Image"}

\* C8 as stated: descend for any target of the command line, under either
\* descent, ends with status 111 when the target's type is none of the five and
\* with status 110 when its type is one of them and the server has no such
\* object.
C8_DistinctStatuses ==
    [][TargetPending =>
          /\ Head(stack).o.cls \notin KnownTypes => status'.code = 111
          /\ (/\ Head(stack).o.cls \in KnownTypes
              /\ ~exists(server, Head(stack).o.cls, Head(stack).o.id))
             => status'.code = 110]_vars

-----------------------------------------------------------------------------
(* C9 *)

\* C9 as stated: a buffering run prints no line and writes nothing while the
\* traversal runs; when descend has returned, close writes the graph, once; a
\* run that ended with an error of the traversal has written nothing.
C9_WrittenOnce ==
    /\ []((handler.constructed /\ ~streaming(handler.formatter)) =>
            /\ fh.lines = <<>>
            /\ Len(fh.docs) <= 1
            /\ pc = "traverse" => fh.docs = <<>>
            /\ (pc = "done" /\ status = OK) =>
                  Len(fh.docs) = 1 /\ fh.docs[1].triples = handler.graph
            /\ (pc = "done" /\ status # OK) => fh.docs = <<>>)
    /\ [][(/\ pc = "traverse"
           /\ stack = <<>>
           /\ ~streaming(handler.formatter))
          => /\ Len(fh'.docs) = 1
             /\ fh'.docs[1].triples = handler.graph
             /\ fh'.docs[1].format = handler.formatter]_vars

-----------------------------------------------------------------------------
(* C10 *)

\* The gateway is in use: from the try of _wrapper to its finally
Running == pc \in {"validate", "format", "open", "construct", "traverse", "exit_fh",
                   "finally"}

\* C10: the gateway is open as long as the action runs; when the command is
\* over, with whatever status, a gateway that was acquired is closed and was
\* closed exactly once; and after its close nothing uses it: no step follows.
C10_GuaranteedRelease ==
    /\ [](/\ Running => gateway = "open" /\ closes = 0
          /\ pc = "start" => gateway = "none" /\ closes = 0
          /\ pc = "done" =>
                IF status = Failed(1, "ctx.conn failed")
                THEN gateway = "none" /\ closes = 0
                ELSE gateway = "closed" /\ closes = 1)
    /\ [][gateway # "closed"]_vars

\* Commands ended with a closed gateway after the not-found error.
C10_Witness ==
    /\ pc = "done"
    /\ status.code = 110
    /\ gateway = "closed"
    /\ closes = 1
    /\ handler.constructed

-----------------------------------------------------------------------------
(* C11 *)

\* The Images among the targets of the command line that the server holds with
\* a primary pixel set
ImageTargets ==
    {Obj("Image", args.target[i].id) : i \in {j \in DOMAIN args.target :
        /\ args.target[j].cls = "Image"
        /\ exists(server, "Image", args.target[j].id)
        /\ server.pixels[args.target[j].id] # 0}}

\* The primary pixel set of an Image that has one
PixelsOf(img) == getPrimaryPixels(server, img)[1]

\* C11 as stated: when an export ends well, the output holds, for every Image
\* target N with primary pixel set P, the triples (Image/N rdf:type Image),
\* (Pixels/P isPartOf Image/N) and (Image/N hasPart Pixels/P), and the
\* rdf:type triple of the Pixels.
C11_ImageExport ==
    (pc = "done" /\ handler.constructed /\ status = OK) =>
        \A img \in ImageTargets :
            /\ in_output(subject(img), RDF_type, URIRef(TYPE_NS \o "Image"))
            /\ in_output(subject(PixelsOf(img)), DCTERMS_isPartOf, subject(img))
            /\ in_output(subject(img), DCTERMS_hasPart, subject(PixelsOf(img)))
            /\ in_output(subject(PixelsOf(img)), RDF_type, URIRef(TYPE_NS \o "Pixels"))

-----------------------------------------------------------------------------
(* C12 *)

\* The Images of the server and the ROIs of all of them
Images == {o \in server.objects : o.cls = "Image"}
Rois == UNION {Range(_get_rois(server, img)) : img \in Images}

\* The pending call links a ROI to the pixels of its Image
RoiLinkPending ==
    /\ Top("contains")
    /\ Head(stack).b \in {subject(roi) : roi \in Rois}

\* C12 as stated: for every Image whose export was begun and every ROI attached
\* to it, the call that links the ROI hands (roi isPartOf pixels) to the output
\* and leaves no error, pixels being the identity of a Pixels object; and when
\* the export has ended well, the output holds, for every exported Image and
\* every ROI attached to it, (roi isPartOf pixels) with roi of rdf:type ROI and
\* pixels of rdf:type Pixels.
C12_RoiLinkage ==
    /\ [][RoiLinkPending =>
            /\ status' = OK
            /\ \E c \in Emitted :
                  /\ c[1] = n3(Head(stack).b)
                  /\ c[2] = n3(DCTERMS_isPartOf)
                  /\ of_type(c[3], "Pixels")]_vars
    /\ []((pc = "done" /\ handler.constructed /\ status = OK) =>
            \A img \in Images :
                in_output(subject(img), RDF_type, URIRef(TYPE_NS \o "Image")) =>
                    \A roi \in Range(_get_rois(server, img)) :
                        \E pix \in {Obj("Pixels", 1), Obj("Pixels", 2)} :
                            /\ in_output(subject(roi), DCTERMS_isPartOf, subject(pix))
                            /\ in_output(subject(roi), RDF_type, URIRef(TYPE_NS \o "ROI"))
                            /\ in_output(subject(pix), RDF_type,
                                         URIRef(TYPE_NS \o "Pixels")))

-----------------------------------------------------------------------------
(* C13 *)

\* The extensions expected for a format name
expected_extensions(f) ==
    IF f = "ntriples" THEN {"nt"}
    ELSE IF f = "turtle" THEN {"ttl"}
    ELSE {"jsonld", "json"}

\* The extension of a file name: case-insensitive, a final ".gz" apart
extension_of(file) ==
    LET name == lower(file)
    IN  split_last(IF endswith(name, ".gz") THEN SubSeq(name, 1, Len(name) - 3) ELSE name,
                   ".")

\* The command names a real output file
RealFile == args.file # "" /\ args.file # "-"

ExtensionMismatch == extension_of(args.file) \notin expected_extensions(args.format)

PrettyConflict ==
    args.pretty /\ (args.format # "turtle" \/ extension_of(args.file) # "ttl")

\* The logging records among the messages
warnings(msgs) == {i \in DOMAIN msgs : startswith(msgs[i], "warning: ")}

\* _validate_extensions has returned
Validated == pc = "format"

\* C13: with --yes, _validate_extensions logs a warning if and only if a real
\* output file is given and either its extension is not among those expected
\* for the format or --pretty is set with a conflicting format or extension: one
\* record for each of the two reasons and nothing else, nothing to the user;
\* when the extension matches and --pretty is off there is no record at all.
C13_ExtensionWarnings ==
    (Validated /\ args.yes) =>
        /\ warnings(log) # {} <=> (RealFile /\ (ExtensionMismatch \/ PrettyConflict))
        /\ warnings(log) = DOMAIN log
        /\ ("warning: extension does not match format" \in Range(log))
             <=> (RealFile /\ ExtensionMismatch)
        /\ ("warning: --pretty sets output format to Turtle" \in Range(log))
             <=> (RealFile /\ PrettyConflict)
        /\ Len(log) = (IF RealFile /\ ExtensionMismatch THEN 1 ELSE 0)
                      + (IF RealFile /\ PrettyConflict THEN 1 ELSE 0)
        /\ (~ExtensionMismatch /\ ~args.pretty) => log = <<>>

\* --yes was given with a gzipped file whose upper-case extension matches the
\* format: nothing was logged.
C13_Witness ==
    /\ Validated
    /\ args.yes
    /\ args.file = "OUT.JSON.gz"
    /\ args.format = "ro-crate"
    /\ log = <<>>

-----------------------------------------------------------------------------
(* C14 *)

\* literal has returned for a string
ReturnedStr == probe.returned /\ probe.v.t = "str"

\* The ellipsis rule applies to the string
Ellided == handler.use_ellide /\ Len(probe.v.s) > 50

\* The string begins or ends with a space
SpaceAtEnd == startswith(probe.v.s, " ") \/ endswith(probe.v.s, " ")

\* r is s without its leading and trailing whitespace
is_strip_of(r, s) ==
    /\ \E i, j \in 0..Len(s) :
          /\ r = SubSeq(s, i + 1, j)
          /\ \A k \in (1..i) \cup ((j + 1)..Len(s)) : CharAt(s, k) \in Whitespace
    /\ r = "" \/ (CharAt(r, 1) \notin Whitespace /\ CharAt(r, Len(r)) \notin Whitespace)

\* C14: for a string with a leading or trailing space to which the ellipsis
\* rule does not apply, literal returns the string unchanged and logs exactly
\* one warning when trimming is off, and returns the stripped string and logs
\* nothing when trimming is on; a string without leading or trailing
\* whitespace is returned unchanged and nothing is logged.
C14_WhitespacePolicy ==
    (ReturnedStr /\ ~Ellided) =>
        /\ (SpaceAtEnd /\ ~handler.trim_whitespace) =>
              /\ probe.lit = [k |-> "lit", v |-> probe.v.s]
              /\ log = <<"whitespace">>
        /\ (SpaceAtEnd /\ handler.trim_whitespace) =>
              /\ probe.lit.k = "lit"
              /\ is_strip_of(probe.lit.v, probe.v.s)
              /\ log = <<>>
        /\ strip(probe.v.s) = probe.v.s =>
              /\ probe.lit = [k |-> "lit", v |-> probe.v.s]
              /\ log = <<>>

\* " foo " came back as it was, with one warning, from a Handler that does not
\* trim.
C14_Witness ==
    /\ ReturnedStr
    /\ probe.v.s = " foo "
    /\ ~handler.trim_whitespace
    /\ probe.lit.v = " foo "
    /\ log = <<"whitespace">>

-----------------------------------------------------------------------------
(* C15 *)

\* C15: with the ellipsis on, the literal of a string of more than 50
\* characters has exactly 46 characters: the first 24 of the string, "...",
\* and the 19 characters at its indices len-20 to len-2; the literal of a
\* string of 50 characters or fewer is the string, or the stripped string when
\* the Handler trims its spaces.
C15_EllipsisLaw ==
    (ReturnedStr /\ handler.use_ellide) =>
        /\ probe.lit.k = "lit"
        /\ Len(probe.v.s) > 50 =>
              /\ Len(probe.lit.v) = 46
              /\ SubSeq(probe.lit.v, 1, 24) = SubSeq(probe.v.s, 1, 24)
              /\ SubSeq(probe.lit.v, 25, 27) = "..."
              /\ \A i \in 0..18 :
                    CharAt(probe.lit.v, 28 + i)
                        = CharAt(probe.v.s, (Len(probe.v.s) - 20 + i) + 1)
        /\ Len(probe.v.s) <= 50 =>
              IF SpaceAtEnd /\ handler.trim_whitespace
              THEN is_strip_of(probe.lit.v, probe.v.s)
              ELSE probe.lit.v = probe.v.s

\* The 62 characters came back as 46.
C15_Witness ==
    /\ ReturnedStr
    /\ handler.use_ellide
    /\ probe.v.s = Alphabet62
    /\ probe.lit.v = "abcdefghijklmnopqrstuvwx...QRSTUVWXYZ012345678"

-----------------------------------------------------------------------------
(* C16 *)

\* The pending call hands the handler a loaded object that was not visited,
\* and the lines it prints are kept in their order
FirstVisit ==
    /\ Top("call")
    /\ Head(stack).o.loaded
    /\ get_encoder(Head(stack).o)
    /\ streaming(handler.formatter)
    /\ "@id" \in DOMAIN encode(server, Head(stack).o)
    /\ subject(Head(stack).o) \notin handler.cache

\* The predicate (in N3) under which the key k of a payload is emitted
predicate_of(k, v) ==
    IF k = "@type" THEN n3(RDF_type)
    ELSE IF v.t = "list" /\ Len(v.l) > 0 /\ v.l[1].t = "list" THEN n3(URIRef(OME \o "Map"))
    ELSE IF startswith(k, "omero:") THEN n3(URIRef(OMERO \o SubSeq(k, 7, Len(k))))
    ELSE n3(URIRef(OME \o k))

\* The link from a subject to one of its 'Annotations' items
is_annotation_link(c) ==
    c[2] \in {n3(URIRef(OME \o "annotation")), n3(URIRef(WDP \o "P180"))}

\* An attribute line of s proper: not the link to an 'Annotations' item
is_own_attribute(c, s) == c[1] = s /\ is_attribute(c) /\ ~is_annotation_link(c)

\* The parsed lines of a sequence of lines
parsed(lines) == [i \in DOMAIN lines |-> fields(lines[i])]

\* The parsed lines L, printed for the payload data with subject s, are ordered:
\* the attribute lines of s follow the ascending order of the keys they come
\* from; the lines of a blank node follow the
\* line that introduces it with nothing of another subject in between; and
\* the lines that come from 'Annotations' follow every attribute of s.
ordered(L, s, data) ==
    /\ \A i, j \in DOMAIN L :
          (i < j /\ is_own_attribute(L[i], s) /\ is_own_attribute(L[j], s))
          => \E ki, kj \in DOMAIN data :
                /\ predicate_of(ki, data[ki]) = L[i][2]
                /\ predicate_of(kj, data[kj]) = L[j][2]
                /\ ~str_lt(kj, ki)
    /\ \A i \in DOMAIN L :
          startswith(L[i][1], "_:") =>
              \E j \in 1..(i - 1) :
                  /\ L[j][3] = L[i][1]
                  /\ \A k \in (j + 1)..i : L[k][1] = L[i][1]
    /\ \A i, j \in DOMAIN L :
          (/\ L[i][1] = s /\ is_annotation_link(L[i])
           /\ is_own_attribute(L[j], s))
          => j < i

\* C16: the lines a first visit prints have the attributes of the payload in
\* ascending order of their keys, with the triples of a nested value in the
\* place of its key and those of 'Annotations' after all attributes, so that
\* the sequence is fixed by the payload and not by the order of its items.
C16_DeterministicOrdering ==
    [][(FirstVisit /\ status' = OK) =>
          /\ NewLines # <<>>
          /\ ordered(parsed(NewLines), n3(subject(Head(stack).o)),
                     encode(server, Head(stack).o))]_vars

\* Pixels 1 was printed: its rdf:type, then 'Type' with its blank node.  ROI 1
\* was printed: its rdf:type, then the link to its annotation.
C16_Witness ==
    /\ StreamingDone
    /\ status = OK
    /\ \E i \in DOMAIN fh.lines :
          /\ i + 4 <= Len(fh.lines)
          /\ fh.lines[i] = line(subject(Obj("Pixels", 1)), RDF_type,
                                URIRef(TYPE_NS \o "Pixels"))
          /\ fh.lines[i + 1] = line(subject(Obj("Pixels", 1)), URIRef(OME \o "Type"),
                                    BNode(0))
          /\ startswith(fh.lines[i + 2], "_:b0\t")
          /\ startswith(fh.lines[i + 3], "_:b0\t")
    /\ \E i \in DOMAIN fh.lines :
          /\ i + 1 <= Len(fh.lines)
          /\ fh.lines[i] = line(subject(Obj("Roi", 1)), RDF_type, URIRef(TYPE_NS \o "ROI"))
          /\ startswith(fh.lines[i + 1],
                        n3(subject(Obj("Roi", 1))) \o "\t" \o n3(URIRef(OME \o "annotation")))

-----------------------------------------------------------------------------
(* C17 *)

\* Some triple
AnyTriple == <<URIRef("s"), RDF_type, URIRef("o")>>

\* The method raised its RuntimeError
rejected(err) == startswith(err, "RuntimeError")

\* C17: a streaming format rejects add and serialize_graph and serializes a
\* triple, a buffering format rejects serialize_triple, adds a triple and
\* serializes its graph; no run ends with a rejection, since the Handler
\* prints lines and leaves the graph empty for a streaming format and adds to
\* the graph and prints no line for a buffering one; and close writes the graph
\* of a buffering format and does nothing for a streaming one.
C17_FormatContract ==
    /\ [](\A f \in FormatNames :
            IF streaming(f)
            THEN /\ rejected(add(f, {}, AnyTriple).err)
                 /\ rejected(serialize_graph(f, {AnyTriple}).err)
                 /\ serialize_triple(f, AnyTriple).err = ""
            ELSE /\ rejected(serialize_triple(f, AnyTriple).err)
                 /\ add(f, {}, AnyTriple) = [err |-> "", graph |-> {AnyTriple}]
                 /\ ~rejected(serialize_graph(f, {AnyTriple}).err))
    /\ [](~rejected(status.exc))
    /\ [](handler.constructed =>
            IF streaming(handler.formatter)
            THEN handler.graph = {} /\ fh.docs = <<>>
            ELSE fh.lines = <<>>)
    /\ [][(pc = "traverse" /\ stack = <<>>) =>
            IF streaming(handler.formatter)
            THEN fh' = fh /\ status' = status
            ELSE status' = OK => Len(fh'.docs) = 1]_vars

\* A streaming export ended well after close: lines were printed, no document
\* was written and the graph is empty.
C17_Witness ==
    /\ StreamingDone
    /\ status = OK
    /\ args.target = <<Proxy("Image", 1)>>
    /\ Len(fh.lines) > 10
    /\ fh.docs = <<>>
    /\ handler.graph = {}

-----------------------------------------------------------------------------
(* C18 *)

\* The triple has a None component
has_none(t) == \E i \in 1..3 : t[i] = None

\* The triples the generator yields for the pending call
yielded(r, srv, data) ==
    rdf(r.handler, srv,
        [cache |-> r.handler.cache, bnode |-> r.handler.bnode,
         minted |-> r.handler.minted, out |-> <<>>, err |-> "", warn |-> <<>>],
        get_identity(r.handler, get_type(data), pystr(data["@id"])), data).out

\* The triples of a sequence that have no None component, in order
RECURSIVE kept(_)
kept(ts) ==
    IF ts = <<>> THEN <<>>
    ELSE IF has_none(Head(ts)) THEN kept(Tail(ts))
    ELSE <<Head(ts)>> \o kept(Tail(ts))

\* The pending call is for a loaded object with an encoder and an '@id'
CallPending ==
    /\ Top("call")
    /\ Head(stack).o.loaded
    /\ get_encoder(Head(stack).o)
    /\ "@id" \in DOMAIN encode(server, Head(stack).o)

\* What the step did with the triples ts of the generator: those without a
\* None component went to the output, in order, and nothing else did; when
\* one was dropped the step left no error.
forwarded(ts) ==
    /\ (status' = OK \/ \E i \in DOMAIN ts : has_none(ts[i])) =>
          /\ status' = OK
          /\ IF streaming(handler.formatter)
             THEN NewLines = [i \in DOMAIN kept(ts) |->
                                line(kept(ts)[i][1], kept(ts)[i][2], kept(ts)[i][3])]
             ELSE handler'.graph = handler.graph \cup Range(kept(ts))

\* C18: no triple with a None component reaches the sink, whether it comes from
\* the generator, from an annotation handler or from a containment edge: the
\* graph never holds one, no run ends with the error a sink raises for one,
\* neither term of a containment edge is None when contains is called, and a call of the
\* handler whose generator yields one drops it, forwards the others in order
\* and goes on.
C18_NullDropped ==
    /\ [](\A t \in handler.graph : ~has_none(t))
    /\ [](/\ ~startswith(status.exc, "AttributeError")
          /\ ~startswith(status.exc, "AssertionError"))
    /\ [][Top("contains") => Head(stack).a # None /\ Head(stack).b # None]_vars
    /\ [][CallPending => forwarded(yielded(Run, server, encode(server, Head(stack).o)))]_vars

\* The Wikidata query found nothing for the organism of MapAnnotation 1: the
\* annotation is in the output without a taxon, and the export ended well.
C18_Witness ==
    /\ pc = "done"
    /\ status = OK
    /\ ~server.wikidata
    /\ "missing in wikidata" \in Range(log)
    /\ in_output(subject(MapAnnotation1), RDF_type, URIRef(WD \o "Q35120"))
    /\ in_output(subject(MapAnnotation1), URIRef(WDP \o "P3629"), Literal(Str("5")))

-----------------------------------------------------------------------------
(* C19 *)

\* The nested objects with an '@id' of a payload, each with its key: the
\* values that are such objects and the elements of lists that are
nested_with_id(data) ==
    {<<k, data[k].d>> : k \in {j \in DOMAIN data \ {"@id", "@type", "omero:details",
                                                      "Annotations"} :
                                 data[j].t = "dict" /\ "@id" \in DOMAIN data[j].d}}
    \cup UNION {{<<k, data[k].l[i].d>> :
                    i \in {n \in DOMAIN data[k].l :
                             data[k].l[n].t = "dict" /\ "@id" \in DOMAIN data[k].l[n].d}} :
                k \in {j \in DOMAIN data \ {"@id", "@type", "omero:details",
                                             "Annotations"} : data[j].t = "list"}}

\* identity(nested)
identity(v) == get_identity(handler, get_type(v), pystr(v["@id"]))

\* What a step must hand to the output for the nested objects of the payload
\* data with subject s: the link, and the rdf:type of the nested object under
\* its own identity when that was not visited before
expanded(s, data) ==
    \A n \in nested_with_id(data) :
        /\ terms(<<s, URIRef(OME \o n[1]), identity(n[2])>>) \in Emitted
        /\ identity(n[2]) \notin handler.cache =>
              terms(<<identity(n[2]), RDF_type, URIRef(n[2]["@type"].s)>>) \in Emitted

\* C19 as stated: a call of the handler for an object not visited before, whose
\* payload has a nested object with its own '@id', as a value or in a list,
\* emits the link (parent, key, identity(nested)) and the attribute triples of
\* the nested object, its rdf:type among them, with identity(nested) as their
\* subject, when identity(nested) was not visited before.
C19_NestedExpansion ==
    [][(/\ CallPending
        /\ subject(Head(stack).o) \notin handler.cache
        /\ status' = OK)
       => expanded(subject(Head(stack).o), encode(server, Head(stack).o))]_vars

-----------------------------------------------------------------------------
(* C20 *)

\* C20 as stated: when descend is about to be called for a target of the
\* command line, the first or a later one, under either descent, the depth
\* counter is 0, so that the target is not skipped but looked up and
\* dispatched by its type; and the call increments the counter.
C20_DepthReset ==
    /\ [](TargetPending =>
            /\ handler.descent_level = 0
            /\ ~skip_descent(handler))
    /\ [][TargetPending => handler'.descent_level = 1]_vars

-----------------------------------------------------------------------------
(* C21 *)

\* How often a line is among the lines of a sequence
times(L, l) == Cardinality({i \in DOMAIN L : L[i] = l})

\* The number of registered handlers
Registered == Len(handler.annotation_handlers)

\* The pending call hands the handler MapAnnotation 1, an annotation root that
\* every registered handler claims
RootOffered ==
    /\ CallPending
    /\ streaming(handler.formatter)
    /\ Head(stack).o = MapAnnotation1

\* The pending call hands the handler ROI 1, not visited before, whose
\* 'Annotations' hold MapAnnotation 1
ItemOffered ==
    /\ CallPending
    /\ streaming(handler.formatter)
    /\ Head(stack).o = Obj("Roi", 1)
    /\ server.fetched[1] = <<MapAnnotation1>>
    /\ subject(Obj("Roi", 1)) \notin handler.cache

\* The line each handler that is invoked on MapAnnotation 1 prints first
thing_line == line(subject(MapAnnotation1), RDF_type, URIRef(WD \o "Q35120"))

\* C21 as stated: with first-handler-wins inactive, every registered handler is
\* invoked on an annotation root and on each item of an 'Annotations' list,
\* even after an earlier handler claimed it; with first-handler-wins active
\* the first claim stops the chain.
C21_EveryHandlerInvoked ==
    [][/\ RootOffered =>
            times(NewLines, thing_line)
                = IF handler.first_handler_wins /\ Registered > 0 THEN 1 ELSE Registered
       /\ ItemOffered =>
            times(NewLines, thing_line)
                = IF handler.first_handler_wins /\ Registered > 0 THEN 1 ELSE Registered]_vars

\* C21, amended: on an annotation root the handlers are invoked in
\* registration order and a claim stops the chain only under
\* first-handler-wins, every handler being invoked otherwise; on an item of an
\* 'Annotations' list the first claim stops the chain whatever the mode, so
\* that the item is handled by one handler at most.
C21_ChainShortCircuit ==
    [][/\ RootOffered =>
            times(NewLines, thing_line)
                = IF handler.first_handler_wins /\ Registered > 0 THEN 1 ELSE Registered
       /\ ItemOffered =>
            /\ times(NewLines, thing_line) = IF Registered > 0 THEN 1 ELSE 0
            /\ times(NewLines, line(subject(Obj("Roi", 1)), URIRef(WDP \o "P180"),
                                    subject(MapAnnotation1)))
                 = IF Registered > 0 THEN 1 ELSE 0]_vars

\* Two handlers are registered and first-handler-wins is off: ROI 1 was
\* printed with one link to MapAnnotation 1, the annotation itself with the
\* statements of both handlers.
C21_Witness ==
    /\ StreamingDone
    /\ status = OK
    /\ Registered = 2
    /\ ~handler.first_handler_wins
    /\ server.fetched[1] = <<MapAnnotation1>>
    /\ count(line(subject(Obj("Roi", 1)), URIRef(WDP \o "P180"), subject(MapAnnotation1))) = 1
    /\ count(line(subject(MapAnnotation1), RDF_type, URIRef(TYPE_NS \o "MapAnnotation"))) = 1

-----------------------------------------------------------------------------
(* C22 *)

\* The pending call hands the handler ROI 1, not visited before, with items in
\* its 'Annotations' that all have an '@id'
ItemsPending ==
    /\ CallPending
    /\ streaming(handler.formatter)
    /\ Head(stack).o = Obj("Roi", 1)
    /\ subject(Obj("Roi", 1)) \notin handler.cache
    /\ \A i \in DOMAIN server.fetched[1] : server.fetched[1][i].id \notin server.noid

\* Some registered handler claims the item: the handlers of the model claim
\* the map annotations
item_claimed(ann) ==
    Registered > 0 /\ contains_str(get_type(encode(server, ann)), "MapAnnotation")

\* The default links from s to an annotation with the given id among the
\* parsed lines L
default_links(L, s, id) ==
    {i \in DOMAIN L :
        /\ L[i][1] = n3(s)
        /\ L[i][2] = n3(URIRef(OME \o "annotation"))
        /\ endswith(L[i][3], "/" \o ToString(id) \o ">")}

\* The default mapping of the item ann of s in the parsed lines L: one link,
\* and the rdf:type of the annotation under the object of the link
default_applied(L, s, ann) ==
    /\ Cardinality(default_links(L, s, ann.id)) = 1
    /\ \A i \in default_links(L, s, ann.id) :
          \E j \in DOMAIN L :
              /\ j > i
              /\ L[j] = <<L[i][3], n3(RDF_type), n3(URIRef(encode(server, ann)["@type"].s))>>

\* C22: for each item of the 'Annotations' of an object, the default mapping
\* (the link with the predicate 'annotation' to the identity the item is
\* given, then the item expanded as a normal object under that identity) is
\* applied when no registered handler claimed the item, and no default link
\* is emitted for an item a handler claimed.
C22_DefaultAnnotationPath ==
    [][(ItemsPending /\ status' = OK) =>
          \A i \in DOMAIN server.fetched[1] :
              IF item_claimed(server.fetched[1][i])
              THEN default_links(parsed(NewLines), subject(Obj("Roi", 1)),
                                 server.fetched[1][i].id) = {}
              ELSE default_applied(parsed(NewLines), subject(Obj("Roi", 1)),
                                   server.fetched[1][i])]_vars

\* MapAnnotation 1, an item of ROI 1, took the default path where no handler
\* is registered: the link and the pairs of the annotation are in the output.
C22_Witness ==
    /\ StreamingDone
    /\ status = OK
    /\ Registered = 0
    /\ server.fetched[1] = <<MapAnnotation1>>
    /\ \E i \in DOMAIN fh.lines :
          /\ startswith(fh.lines[i], n3(subject(Obj("Roi", 1))) \o "\t"
                                      \o n3(URIRef(OME \o "annotation")) \o "\t")
          /\ i + 2 <= Len(fh.lines)
          /\ contains_str(fh.lines[i + 2], n3(URIRef(OME \o "Map")))

-----------------------------------------------------------------------------
(* C23 *)

\* The pending call hands the handler an annotation
AnnotationPending ==
    /\ CallPending
    /\ contains_str(get_type(encode(server, Head(stack).o)), "Annotation")

\* C23: when the handler is called for an annotation, the registered handlers
\* are offered the payload before the visited-set is consulted, so that their
\* statements are emitted for an annotation visited before as well; and when
\* first-handler-wins is set and a handler claims the payload, the call emits
\* nothing further: the first claimant's statements and no attribute triple
\* (no rdf:type of the payload, no field, nothing nested), and the annotation
\* is not marked as visited.
C23_ClaimedRoot ==
    [][(AnnotationPending /\ status' = OK) =>
          /\ (Head(stack).o = MapAnnotation1 /\ Registered > 0) =>
                terms(<<subject(MapAnnotation1), RDF_type, URIRef(WD \o "Q35120")>>)
                    \in Emitted \cup {terms(t) : t \in handler.graph}
          /\ claimed(Head(stack).o) =>
                /\ \A c \in Emitted : ~is_attribute(c)
                /\ handler'.cache = handler.cache
                /\ handler'.bnode = handler.bnode
                /\ streaming(handler.formatter) => times(NewLines, thing_line) = 1]_vars

\* Under first-handler-wins an export ended well in which MapAnnotation 1 was
\* claimed: the handler's statement is in the output, the rdf:type of the
\* annotation is not, and the annotation was never marked as visited.
C23_Witness ==
    /\ pc = "done"
    /\ status = OK
    /\ handler.first_handler_wins
    /\ Registered = 2
    /\ in_output(subject(MapAnnotation1), RDF_type, URIRef(WD \o "Q35120"))
    /\ ~in_output(subject(MapAnnotation1), RDF_type, URIRef(TYPE_NS \o "MapAnnotation"))
    /\ subject(MapAnnotation1) \notin handler.cache

-----------------------------------------------------------------------------
(* C24 *)

-----------------------------------------------------------------------------
(* C25 *)

\* The pending call is for an object whose class has no encoder
UnknownPending == Top("call") /\ ~get_encoder(Head(stack).o)

\* The pending call is the first for a Pixels whose list of channels holds an
\* element that is neither an object with '@id' nor a list of two
MalformedPending ==
    /\ CallPending
    /\ Head(stack).o.cls = "Pixels"
    /\ "channel_without_id" \in server.quirks
    /\ subject(Head(stack).o) \notin handler.cache

\* The traversal is over with the exception, all pending calls abandoned
aborted(exc) ==
    /\ status' = Failed(1, exc)
    /\ stack' = <<>>
    /\ pc' = "exit_fh"

\* C25: a call of the handler for an object whose class has no encoder, and
\* one whose payload has a list with an element that is neither an object with
\* '@id' nor a list of two, each raise an exception that ends the whole
\* traversal: every pending call (later siblings, later targets) is abandoned,
\* the call without encoder emits nothing, and once the traversal has failed no
\* step adds a line or a triple to the output.
C25_MalformedAborts ==
    [][/\ UnknownPending =>
            /\ aborted("Exception: unknown")
            /\ fh'.lines = fh.lines
            /\ handler'.graph = handler.graph
       /\ MalformedPending => aborted("Exception: unknown list item")
       /\ status # OK =>
            /\ status' = status
            /\ stack' = <<>>
            /\ fh'.lines = fh.lines
            /\ fh'.docs = fh.docs
            /\ handler'.graph = handler.graph]_vars

\* An export of Image 1 and Screen 1 ended with the exception of the annotation
\* without encoder: the Image is in the output, and neither the annotation
\* linked after it nor the second target is.
C25_Witness ==
    /\ pc = "done"
    /\ status = Failed(1, "Exception: unknown")
    /\ Len(args.target) = 2
    /\ registry # <<>>
    /\ in_output(subject(Image1), RDF_type, URIRef(TYPE_NS \o "Image"))
    /\ ~in_output(subject(MapAnnotation1), RDF_type, URIRef(WD \o "Q35120"))
    /\ ~in_output(subject(Obj("Screen", 1)), RDF_type, URIRef(TYPE_NS \o "Screen"))

\* An export ended with the exception of the malformed list element
C25_WitnessListItem ==
    /\ pc = "done"
    /\ status = Failed(1, "Exception: unknown list item")
    /\ Len(args.target) = 2
    /\ ~in_output(subject(Obj("Screen", 1)), RDF_type, URIRef(TYPE_NS \o "Screen"))

-----------------------------------------------------------------------------
(* C26 *)

\* The lines of a sequence of triples, in order
lines(ts) == [i \in DOMAIN ts |-> line(ts[i][1], ts[i][2], ts[i][3])]

\* The pending call is one whose generator runs, in a streaming format
StreamingCallPending ==
    /\ CallPending
    /\ streaming(handler.formatter)
    /\ ~falsy(encode(server, Head(stack).o)["@id"])

\* C26: in a streaming format every triple the generator yields is written
\* when it is yielded: a call of the handler adds to the output exactly the
\* lines of the triples its generator yielded (those with a None component
\* apart), in order, also when the generator ends with an exception, in which
\* case the lines of the triples yielded before it are written; and no triple
\* is ever kept in the graph.
C26_IncrementalForwarding ==
    [][/\ StreamingCallPending =>
            NewLines = lines(kept(yielded(Run, server, encode(server, Head(stack).o))))
       /\ (pc = "traverse" /\ streaming(handler.formatter)) => handler'.graph = {}]_vars

\* A streaming export ended with the exception the generator raised for the
\* malformed list of the Pixels, after the line of the Pixels' type was written
C26_Witness ==
    /\ pc = "done"
    /\ streaming(handler.formatter)
    /\ status = Failed(1, "Exception: unknown list item")
    /\ line(subject(Obj("Pixels", 1)), RDF_type, URIRef(TYPE_NS \o "Pixels"))
          \in Range(fh.lines)

-----------------------------------------------------------------------------
(* C27 *)

\* n is the type name t without one trailing I, or t itself when t is "ROI" or
\* does not end in I
normalized(t, n) ==
    IF t # "ROI" /\ endswith(t, "I") THEN n \o "I" = t ELSE n = t

\* The URI of a type name already normalized
composed(host, n, _id) ==
    URIRef("https://" \o host \o "/" \o n \o "/" \o ToString(_id))

\* get_identity has returned for the arguments (t, i)
Identified(t, i) ==
    /\ pc = "get_identity"
    /\ probe.returned
    /\ probe.v = List(<<Str(t), Num(i)>>)

\* The normalized names of the type names
NormalNames == {n \in TypeNames \cup {""} : \E t \in TypeNames : normalized(t, n)}

\* C27: get_identity(type, id) returns https://{host}/{n}/{id}, n being the
\* type name without exactly one trailing I, or the type name itself when it is
\* "ROI" or has no trailing I; the result depends on nothing but (n, id, host)
\* (not on the visited-set nor on the blank-node counter of the Handler), and
\* arguments that differ in n or in id have different results.
C27_IdentityComposition ==
    \A t \in TypeNames, i \in 0..MaxId :
        Identified(t, i) =>
            /\ \E n \in NormalNames :
                    /\ normalized(t, n)
                    /\ probe.lit = composed(server.host, n, i)
            /\ \A t2 \in TypeNames, i2 \in 0..MaxId :
                    get_identity(handler, t2, ToString(i2)) = probe.lit
                        <=> /\ i2 = i
                            /\ \E n \in NormalNames : normalized(t, n) /\ normalized(t2, n)

\* get_identity has returned for "ROI", kept whole, on a Handler that has
\* visited an object and counted a blank node
C27_Witness ==
    /\ Identified("ROI", 1)
    /\ probe.lit = composed(server.host, "ROI", 1)
    /\ handler.cache # {}
    /\ handler.bnode = 1

\* get_identity has returned for "II", with one I less
C27_WitnessOneI ==
    Identified("II", 2) /\ probe.lit = composed(server.host, "I", 2)

-----------------------------------------------------------------------------
(* C28 *)

\* The annotations of the server that have an '@id'
Annotations_with_id ==
    {ann \in {MapAnnotation1, Obj("CommentAnnotation", 2)} :
        "@id" \in DOMAIN encode(server, ann)}

\* C28: an annotation has one subject on every path: whenever a step hands the
\* rdf:type of an annotation to the output, its subject is the identity built
\* from the annotation's own '@type' and '@id' (the one Handler.handle gives
\* it), and whenever it hands over a link with the predicate 'annotation', the
\* object of the link is such an identity.
C28_OneIdentity ==
    [][\A c \in Emitted :
          /\ \A ann \in Annotations_with_id :
                (c[2] = n3(RDF_type) /\ c[3] = n3(URIRef(encode(server, ann)["@type"].s)))
                    => c[1] = n3(subject(ann))
          /\ c[2] = n3(URIRef(OME \o "annotation"))
                => \E ann \in Annotations_with_id : c[3] = n3(subject(ann))]_vars

-----------------------------------------------------------------------------
(* C29 *)

\* The Images of the server without primary pixel set
PixellessImages == {img \in Images : getPrimaryPixels(server, img) = <<>>}

\* The pending call is the containment edge descend makes for a ROI of an
\* Image without primary pixel set
PixellessRoiPending ==
    /\ Top("contains")
    /\ \E img \in PixellessImages :
          Head(stack).b \in {subject(roi) : roi \in Range(_get_rois(server, img))}

\* C29: descending into an Image without primary pixel set goes through for
\* any number of ROIs: the step descend takes for each ROI after the ROI and
\* its annotations were emitted leaves no error and emits no containment edge
\* with a Pixels identity, and the descent goes on to the shapes of the ROI.
C29_ImageWithoutPixels ==
    [][PixellessRoiPending =>
          /\ status' = OK
          /\ pc' = "traverse"
          /\ \A c \in Emitted : ~of_type(c[1], "Pixels") /\ ~of_type(c[3], "Pixels")]_vars

-----------------------------------------------------------------------------
(* C30 *)

\* C30: with trim_whitespace set, no string literal returns with a whitespace
\* character at its beginning or at its end, whatever use_ellide is and however
\* long the string.
C30_TrimmingGuarantee ==
    (pc = "literal" /\ ReturnedStr /\ handler.trim_whitespace) =>
        /\ probe.lit.k = "lit"
        /\ \/ probe.lit.v = ""
           \/ /\ CharAt(probe.lit.v, 1) \notin Whitespace
              /\ CharAt(probe.lit.v, Len(probe.lit.v)) \notin Whitespace

====
